---- MODULE Spec2Model ----
(***************************************************************************)
(* Market confirmation and staking decision engine of the betting          *)
(* pipeline: the decision function should_log_bet, the required-movement   *)
(* formula, the snapshot generator's baseline anchoring and the logging    *)
(* processes that append to the bet ledger (market_evals.csv).             *)
(*                                                                         *)
(* Units.  Stakes are integers in hundredths of a unit ("cents"),          *)
(* probabilities are integers in thousandths ("mils"), EV is in tenths of  *)
(* a percent, hours are whole hours.  The required move is an exact        *)
(* rational: a numerator over the fixed denominator MoveDen.               *)
(*                                                                         *)
(* Modelling conventions.  Market names are sequences of the tokens that   *)
(* "_" separates, so that startswith / substring tests of the source are   *)
(* computed on the name and not tabulated.  A call that passes a keyword   *)
(* the callee does not declare (existing_csv_stakes, csv_exposure,         *)
(* agreement) is modelled by the callee's body, which never reads it.      *)
(***************************************************************************)
EXTENDS Integers, Sequences, FiniteSets, TLC

\* ------------------------------------------------------------------------
\* Bounds of the model (not program constants)
\* ------------------------------------------------------------------------
MaxClock == 2
MaxCsv == 2

\* ------------------------------------------------------------------------
\* Program constants
\* ------------------------------------------------------------------------
MIN_FIRST_STAKE == 100
MIN_TOPUP_STAKE == 50
MAX_POSITIVE_ODDS == 200
MIN_NEGATIVE_ODDS == -150
KellyScalePct == 25
DefaultHours == 8
DefaultMinEv == 50
TimeBlockHours == 12
MoveUnit == 45
\* common denominator of the factors of required_market_move:
\* 0.0045 = 45/10000, time /24, books /10, full game /4, volatile /2, EV /20
MoveDen == 10000 * 24 * 10 * 4 * 2 * 20
\* one mil (0.001) of probability in units of 1/MoveDen
MilsPerMoveDen == MoveDen \div 1000

NoVal == "none"
\* None for a probability, an hours_to_game value or a timestamp
NoNum == 0 - 1000

\* ------------------------------------------------------------------------
\* Market names as token sequences
\* ------------------------------------------------------------------------
MkTotals == <<"totals">>
MkSpreads == <<"spreads">>
MkH2h == <<"h2h">>
MkTeamTotals == <<"team", "totals">>
MkTotals1st5 == <<"totals", "1st", "5", "innings">>
MkH2h1st5 == <<"h2h", "1st", "5", "innings">>
MkTotals1st3 == <<"totals", "1st", "3", "innings">>
MkTotals1st7 == <<"totals", "1st", "7", "innings">>
MkAltTotals == <<"alternate", "totals">>

Markets ==
    {MkTotals, MkSpreads, MkH2h, MkTeamTotals, MkTotals1st5, MkH2h1st5,
     MkTotals1st3, MkTotals1st7, MkAltTotals}

\* market.replace("alternate_", "")
RECURSIVE StripAlternate(_)
StripAlternate(m) ==
    IF m = <<>> THEN <<>>
    ELSE IF Head(m) = "alternate" /\ Len(m) > 1 THEN StripAlternate(Tail(m))
    ELSE <<Head(m)>> \o StripAlternate(Tail(m))

\* m.startswith(prefix), both token sequences
StartsWith(m, prefix) ==
    /\ Len(m) >= Len(prefix)
    /\ \A i \in 1..Len(prefix) : m[i] = prefix[i]

\* "a_b" in m, for a two-token needle
ContainsPair(m, a, b) ==
    \E i \in 1..(Len(m) - 1) : m[i] = a /\ m[i + 1] = b

\* "a" in m, for a one-token needle
ContainsTok(m, a) == \E i \in 1..Len(m) : m[i] = a

normalize_segment(m) ==
    IF ContainsPair(m, "1st", "3") THEN "1st_3"
    ELSE IF ContainsPair(m, "1st", "5") THEN "1st_5"
    ELSE IF ContainsPair(m, "1st", "7") THEN "1st_7"
    ELSE IF \/ ContainsPair(m, "1st", "1")
            \/ ContainsPair(m, "1st", "inning")
            \/ ContainsPair(m, "1st", "innings")
         THEN "1st"
    ELSE "full_game"

normalize_market_key(m) ==
    LET base == StripAlternate(m) IN
    IF StartsWith(base, <<"totals">>) \/ StartsWith(base, <<"team", "totals">>)
        THEN "total"
    ELSE IF StartsWith(base, <<"spreads">>) \/ StartsWith(base, <<"runline">>)
        THEN "spread"
    ELSE IF StartsWith(base, <<"h2h">>) \/ StartsWith(base, <<"moneyline">>)
        THEN "h2h"
    ELSE "other"

\* category used for the EV threshold lookup
EvCategory(m) ==
    LET base == StripAlternate(m) IN
    IF StartsWith(base, <<"team", "totals">>) THEN "team_totals"
    ELSE normalize_market_key(base)

\* MIN_EV_THRESHOLDS, in tenths of a percent
MinEvTable ==
    [k \in {"1st_3", "1st_7", "1st", "1st_5", "team_totals", "spread",
            "total", "h2h", "h2h_1st_5"} |->
        CASE k = "1st_3" -> 80
          [] k = "1st_7" -> 80
          [] k = "1st" -> 100
          [] k = "1st_5" -> 50
          [] k = "team_totals" -> 80
          [] k = "spread" -> 50
          [] k = "total" -> 50
          [] k = "h2h" -> 50
          [] k = "h2h_1st_5" -> 40]

\* f"{category}_{segment}" restricted to the combination keys of the table
ComboKey(category, segment) ==
    IF category = "h2h" /\ segment = "1st_5" THEN "h2h_1st_5" ELSE NoVal

EvThreshold(m) ==
    LET segment == normalize_segment(m)
        category == EvCategory(m)
        combo == ComboKey(category, segment)
    IN  IF combo \in DOMAIN MinEvTable THEN MinEvTable[combo]
        ELSE IF segment \in DOMAIN MinEvTable THEN MinEvTable[segment]
        ELSE IF category \in DOMAIN MinEvTable THEN MinEvTable[category]
        ELSE DefaultMinEv

\* ------------------------------------------------------------------------
\* Arithmetic helpers
\* ------------------------------------------------------------------------
Max(a, b) == IF a >= b THEN a ELSE b

\* round(n / d) of Python 3 for n >= 0, d > 0: ties go to the even integer
RoundHalfEven(n, d) ==
    LET q == n \div d
        r == n % d
    IN  IF 2 * r < d THEN q
        ELSE IF 2 * r > d THEN q + 1
        ELSE IF q % 2 = 0 THEN q ELSE q + 1

\* stake = round_stake(raw_kelly * 0.25), raw_kelly in cents
ScaledStake(raw_kelly) == RoundHalfEven(raw_kelly * KellyScalePct, 100)

\* ------------------------------------------------------------------------
\* required_market_move: numerator over MoveDen
\* ------------------------------------------------------------------------
IsFullGameDiscount(m) ==
    /\ m # <<>>
    /\ \/ StartsWith(m, <<"totals">>)
       \/ StartsWith(m, <<"spreads">>)
       \/ StartsWith(m, <<"runline">>)
    /\ ~ContainsTok(m, "1st")
    /\ ~ContainsPair(m, "team", "totals")

IsVolatileSegment(m) ==
    /\ m # <<>>
    /\ \/ ContainsPair(m, "1st", "3")
       \/ ContainsPair(m, "1st", "7")
       \/ ContainsPair(m, "team", "totals")

\* variant: the EV adjustment applied only above 12 percent
required_market_move_high_ev_only(hours, book_count, m, ev) ==
    LET time_num == 24 + Max(hours - 6, 0)
        book_num == 10 + 3 * Max(3 - book_count, 0)
        full_num == IF IsFullGameDiscount(m)
                    THEN (IF ev >= 100 /\ ev <= 200 THEN 1 ELSE 2)
                    ELSE 4
        vol_num == IF IsVolatileSegment(m) THEN 3 ELSE 2
        ev_num == IF ev > 120 THEN 16 ELSE 20
    IN  MoveUnit * time_num * book_num * full_num * vol_num * ev_num

required_market_move(hours, book_count, m, ev) ==
    LET time_num == 24 + Max(hours - 6, 0)
        book_num == 10 + 3 * Max(3 - book_count, 0)
        full_num == IF IsFullGameDiscount(m)
                    THEN (IF ev >= 100 /\ ev <= 200 THEN 1 ELSE 2)
                    ELSE 4
        vol_num == IF IsVolatileSegment(m) THEN 3 ELSE 2
        ev_num == IF ev >= 120 THEN 16
                  ELSE IF ev >= 50 /\ ev <= 70 THEN 25
                  ELSE 20
    IN  MoveUnit * time_num * book_num * full_num * vol_num * ev_num

\* ------------------------------------------------------------------------
\* Theme keys
\* ------------------------------------------------------------------------
\* get_theme for the Over / Under sides of the model
get_theme(side) ==
    IF side[1] = "Over" THEN "Over"
    ELSE IF side[1] = "Under" THEN "Under"
    ELSE "Other"

get_theme_key(m, theme) ==
    LET key == normalize_market_key(m) IN
    IF key \in {"total", "spread", "h2h"} THEN <<theme, key>>
    ELSE <<theme, "other">>

make_theme_key(game_id, theme_key, segment) ==
    IF segment = "full_game" \/ segment = ""
    THEN <<game_id, theme_key, "">>
    ELSE <<game_id, theme_key, segment>>

\* exposure key read by should_log_bet
DecisionThemeKey(game_id, m, side) ==
    LET base == StripAlternate(m) IN
    make_theme_key(game_id, get_theme_key(base, get_theme(side)),
                   normalize_segment(m))

\* exposure key written by record_successful_log
get_exposure_key(game_id, m, side) ==
    LET mt == normalize_market_key(m)
        market_type == IF mt \in {"total", "spread", "h2h"} THEN mt ELSE "other"
        theme == IF ContainsTok(side, "Over") THEN "Over"
                 ELSE IF ContainsTok(side, "Under") THEN "Under"
                 ELSE "Other"
    IN  make_theme_key(game_id, <<theme, market_type>>, normalize_segment(m))

\* ------------------------------------------------------------------------
\* should_log_bet
\* ------------------------------------------------------------------------
\* exposure.get(key, 0.0)
ExposureGet(exposure, key) ==
    IF key \in DOMAIN exposure THEN exposure[key] ELSE 0

\* hours_to_game or 8
HoursOrDefault(hours) ==
    IF hours = NoNum \/ hours = 0 THEN DefaultHours ELSE hours

Reject(reason, movement, required) ==
    [log |-> FALSE, skip |-> TRUE, stake |-> 0, entry_type |-> "none",
     movement |-> movement, required_movement |-> required,
     skip_reason |-> reason]

Accept(entry_type, stake, movement, required) ==
    [log |-> TRUE, skip |-> FALSE, stake |-> stake, entry_type |-> entry_type,
     movement |-> movement, required_movement |-> required,
     skip_reason |-> NoVal]

BadOddsGate(row) ==
    row.market_odds > MAX_POSITIVE_ODDS \/ row.market_odds < MIN_NEGATIVE_ODDS

LowEvGate(row) == row.ev_percent < EvThreshold(row.market)

\* movement = curr_prob - prev_prob when a prior tracker entry exists
Movement(row, prev_prob) ==
    IF prev_prob # NoNum /\ row.market_prob # NoNum
    THEN row.market_prob - prev_prob ELSE 0

Threshold(row) ==
    required_market_move(HoursOrDefault(row.hours_to_game), row.book_count,
                         row.market, row.ev_percent)

\* variant: the confirmation gate applied to top-ups as well
NotConfirmedGateAnyExposure(row, theme_total, prev_prob) ==
    /\ prev_prob # NoNum
    /\ Movement(row, prev_prob) * MilsPerMoveDen < Threshold(row)

NotConfirmedGate(row, theme_total, prev_prob) ==
    /\ prev_prob # NoNum
    /\ Movement(row, prev_prob) * MilsPerMoveDen < Threshold(row)
    /\ theme_total = 0

TimeBlockedGate(row) ==
    /\ normalize_segment(row.market) \in {"1st_3", "1st_7", "team_totals"}
    /\ row.hours_to_game # NoNum
    /\ row.hours_to_game > TimeBlockHours

FirstBetBranch(stake, movement, threshold) ==
    IF stake < MIN_FIRST_STAKE
    THEN Reject("low_initial", movement, threshold)
    ELSE Accept("first", stake, movement, threshold)

TopUpBranch(stake, theme_total, movement, threshold) ==
    LET delta == stake - theme_total IN
    IF delta >= MIN_TOPUP_STAKE
    THEN Accept("top-up", delta, movement, threshold)
    ELSE IF delta > 0 THEN Reject("low_topup", movement, threshold)
    ELSE Reject("already_logged", movement, threshold)

\* variant: the EV gate evaluated before the odds gate, and the time gate
\* before the confirmation gate
should_log_bet_reordered(row, exposure, prev_prob) ==
    LET stake == ScaledStake(row.raw_kelly)
        theme_total ==
            ExposureGet(exposure,
                        DecisionThemeKey(row.game_id, row.market, row.side))
        movement == Movement(row, prev_prob)
        threshold == Threshold(row)
    IN  IF LowEvGate(row)
            THEN Reject("low_ev", 0, EvThreshold(row.market) * MilsPerMoveDen)
        ELSE IF BadOddsGate(row) THEN Reject("bad_odds", 0, 0)
        ELSE IF TimeBlockedGate(row)
            THEN Reject("time_blocked", movement, threshold)
        ELSE IF NotConfirmedGate(row, theme_total, prev_prob)
            THEN Reject("not_confirmed", movement, threshold)
        ELSE IF theme_total = 0
            THEN FirstBetBranch(stake, movement, threshold)
        ELSE TopUpBranch(stake, theme_total, movement, threshold)

should_log_bet(row, exposure, prev_prob) ==
    LET stake == ScaledStake(row.raw_kelly)
        theme_total ==
            ExposureGet(exposure,
                        DecisionThemeKey(row.game_id, row.market, row.side))
        movement == Movement(row, prev_prob)
        threshold == Threshold(row)
    IN  IF BadOddsGate(row) THEN Reject("bad_odds", 0, 0)
        ELSE IF LowEvGate(row)
            THEN Reject("low_ev", 0, EvThreshold(row.market) * MilsPerMoveDen)
        ELSE IF NotConfirmedGate(row, theme_total, prev_prob)
            THEN Reject("not_confirmed", movement, threshold)
        ELSE IF TimeBlockedGate(row)
            THEN Reject("time_blocked", movement, threshold)
        ELSE IF theme_total = 0
            THEN FirstBetBranch(stake, movement, threshold)
        ELSE TopUpBranch(stake, theme_total, movement, threshold)

\* ------------------------------------------------------------------------
\* evaluate_late_confirmed_bet
\* ------------------------------------------------------------------------
NoUpdate ==
    [returned |-> FALSE, stake |-> 0, entry_type |-> "none",
     skip_reason |-> NoVal]

LateUpdate(entry_type, stake, reason) ==
    [returned |-> TRUE, stake |-> stake, entry_type |-> entry_type,
     skip_reason |-> reason]

\* bet carries baseline_consensus_prob (prev_prob) and entry_type;
\* new_prob is the new consensus probability
evaluate_late_confirmed_bet(bet, prev_prob, entry_type, new_prob, existing_stake) ==
    IF bet.hours_to_game = NoNum \/ prev_prob = NoNum \/ new_prob = NoNum
    THEN NoUpdate
    ELSE
      LET movement == new_prob - prev_prob
          required_move ==
              required_market_move(bet.hours_to_game, bet.book_count,
                                   bet.market, bet.ev_percent)
          delta == bet.raw_kelly - existing_stake
      IN  IF entry_type = "first"
          THEN IF movement * MilsPerMoveDen < required_move
               THEN LateUpdate("first", 0, "not_confirmed")
               ELSE LateUpdate("first", bet.raw_kelly, NoVal)
          ELSE IF delta < MIN_TOPUP_STAKE THEN NoUpdate
               ELSE LateUpdate("top-up", delta, NoVal)

\* ------------------------------------------------------------------------
\* Inputs of the decision specification
\* ------------------------------------------------------------------------
GameId == "G1"
SideOver == <<"Over", "8.5">>
SideUnder == <<"Under", "8.5">>

OddsInputs == {-160, -110, 210}
EvInputs == {30, 45, 60, 90, 130}
\* raw_kelly values on which exact and binary floating point rounding agree
KellyInputs == {100, 130, 398, 400, 520, 600, 800}
HoursInputs == {NoNum, 3, 14}
BookInputs == {1, 3}
ProbInputs == {470}
PrevInputs == {NoNum, 440, 466}
ExposureInputs == {0, 100}

DecideRows ==
    [game_id : {GameId}, market : Markets, side : {SideOver},
     raw_kelly : KellyInputs, ev_percent : EvInputs, market_odds : OddsInputs,
     hours_to_game : HoursInputs, book_count : BookInputs,
     market_prob : ProbInputs]

\* exposure maps: empty, the row's own theme staked, another theme staked
DecideExposures(row) ==
    {[k \in {} |-> 0]}
    \cup {[k \in {DecisionThemeKey(row.game_id, row.market, row.side)} |-> v] :
            v \in ExposureInputs \ {0}}
    \cup {[k \in {DecisionThemeKey(row.game_id, row.market, SideUnder)} |-> v] :
            v \in ExposureInputs \ {0}}

VARIABLES d_row, d_exposure, d_prev, d_entry, d_out, d_late, d_pc

\* now       wall clock, in hours
\* snapshot  rows of the latest market_snapshot_*.json, by (MarketKey, book)
\* csv       rows of logs/market_evals.csv, in file order
\* pending   pending_bets.json: the baseline kept for each MarketKey
\* m_*       scripts/monitor_early_bets.py: position, loaded rows, exposure
\* b_exposure  the exposure map of run_batch_logging at the end of the run,
\*           while op = "batch"
\* op        the kind of the last step: "poll", "batch" or "other"
\*           (history variable)
VARIABLES now, snapshot, csv, pending,
          m_pc, m_rows, m_exposure, m_idx, m_changed,
          b_exposure, op

dvars == <<d_row, d_exposure, d_prev, d_entry, d_out, d_late, d_pc>>

mvars == <<m_pc, m_rows, m_exposure, m_idx, m_changed>>

svars == <<now, snapshot, csv, pending, mvars, b_exposure, op>>

\* Snapshot directory (backtest/) and the processes that write and read it
\* fs        the files of the directory, by name: state, writer, mtime
\* f_lock    holder of each advisory lock file, or "free"
\* f_clock   next modification time
\* f_ledger  number of rows of logs/market_evals.csv
\* g_*       unified_snapshot_generator.main: position, final path
\* l_*       a logger's snapshot write-back: position, snapshot path
\* r_*       a reader (_load_prior_snapshot_map): position, path, what it read
VARIABLES fs, f_lock, f_clock, f_ledger, g_pc, g_final, l_pc, l_path,
          r_pc, r_path, r_seen

fvars == <<fs, f_lock, f_clock, f_ledger, g_pc, g_final, l_pc, l_path,
           r_pc, r_path, r_seen>>

FilesIdle ==
    /\ fs = <<>> /\ f_lock = <<>> /\ f_clock = 0 /\ f_ledger = 0
    /\ g_pc = "off" /\ g_final = <<>>
    /\ l_pc = <<>> /\ l_path = <<>>
    /\ r_pc = "off" /\ r_path = <<>> /\ r_seen = "unread"

\* mg_*      one row through build and merge: position, prior row, the
\*           poll's quote, the row
VARIABLES mg_pc, mg_prior, mg_in, mg_row

mgvars == <<mg_pc, mg_prior, mg_in, mg_row>>

MergeIdle ==
    /\ mg_pc = "off" /\ mg_prior = <<>> /\ mg_in = <<>> /\ mg_row = <<>>

\* rc_*      reconcile: position, keys of the tracker on disk, keys of the
\*           loaded tracker, (game_id, market, side) triples of the ledger
VARIABLES rc_pc, rc_file, rc_mem, rc_csv

rcvars == <<rc_pc, rc_file, rc_mem, rc_csv>>

ReconcileIdle ==
    /\ rc_pc = "off" /\ rc_file = {} /\ rc_mem = {} /\ rc_csv = {}

\* cl_*      a loop of evaluations: position, the call site, the rows,
\*           index of the next row, rows that got a result, whether an
\*           exception left the loop
VARIABLES cl_pc, cl_site, cl_rows, cl_idx, cl_done, cl_raised

clvars == <<cl_pc, cl_site, cl_rows, cl_idx, cl_done, cl_raised>>

CallIdle ==
    /\ cl_pc = "off" /\ cl_site = "none" /\ cl_rows = <<>>
    /\ cl_idx = 0 /\ cl_done = {} /\ cl_raised = FALSE

\* lp_*      the polling loop: position, what the fetch returned, the odds
\*           path, the background processes, the failures met so far
VARIABLES lp_pc, lp_odds, lp_path, lp_procs, lp_seen

lpvars == <<lp_pc, lp_odds, lp_path, lp_procs, lp_seen>>

LoopIdle ==
    /\ lp_pc = "off" /\ lp_odds = "none" /\ lp_path = "none"
    /\ lp_procs = <<>> /\ lp_seen = {}

\* en_*      one snapshot row: the prior tracker entry of its key, the
\*           candidate, the fields the generator stores on it and the
\*           decision of the batch logger
VARIABLES en_pc, en_prior, en_row, en_snap, en_out

envars == <<en_pc, en_prior, en_row, en_snap, en_out>>

RowIdle ==
    /\ en_pc = "off" /\ en_prior = <<>> /\ en_row = <<>>
    /\ en_snap = <<>> /\ en_out = <<>>

\* the variables of the specifications other than Spec and SpecDecide
xvars == <<fvars, mgvars, rcvars, clvars, lpvars, envars>>

XIdle == FilesIdle /\ MergeIdle /\ ReconcileIdle /\ CallIdle /\ LoopIdle /\ RowIdle

vars == <<dvars, svars, xvars>>

\* ------------------------------------------------------------------------
\* System state: one game, its snapshot rows, the ledger
\* ------------------------------------------------------------------------
\* the game starts at clock StartTime; hours_to_game = StartTime - now
StartTime == 1

Keys == {"k1"}
Books == {"b1"}
\* order of the rows in the snapshot file
RowOrder == <<<<"k1", "b1">>>>
RowKeys == {RowOrder[i] : i \in 1..Len(RowOrder)}

\* every row of the model is the Over side of the full-game totals market
SysMarket == MkTotals
SysSide == SideOver
\* the quote every row carries: EV 6.0%, odds -110, one book
SysQuote == [ev_percent |-> 60, market_odds |-> -110, book_count |-> 1]

\* the books that quote the market at a poll
QuotedSets == {{"b1"}}
Probs == {450, 470}
SysKellys == {400, 800}
\* previous probability found in the evaluation tracker, or none
TrackerPrevs == {NoNum} \cup Probs

AbsentRow ==
    [present |-> FALSE, baseline |-> NoNum, market_prob |-> NoNum,
     raw_kelly |-> 0, hours_to_game |-> NoNum, logged |-> FALSE,
     queued |-> FALSE, skip_reason |-> NoVal]

\* the candidate should_log_bet sees for a snapshot row
RowInput(r) ==
    [game_id |-> GameId, market |-> SysMarket, side |-> SysSide,
     raw_kelly |-> r.raw_kelly, ev_percent |-> SysQuote.ev_percent,
     market_odds |-> SysQuote.market_odds,
     hours_to_game |-> r.hours_to_game, book_count |-> SysQuote.book_count,
     market_prob |-> r.market_prob]

\* get_exposure_key of a ledger row
LedgerKey(r) == get_exposure_key(r.game_id, r.market, r.side)

RECURSIVE SumStakes(_, _)
SumStakes(rows, k) ==
    IF rows = <<>> THEN 0
    ELSE (IF LedgerKey(Head(rows)) = k THEN Head(rows).stake ELSE 0)
         + SumStakes(Tail(rows), k)

\* build_theme_exposure_tracker: stake totals of the ledger by theme
build_theme_exposure_tracker(ledger) ==
    [k \in {LedgerKey(ledger[i]) : i \in 1..Len(ledger)} |->
        SumStakes(ledger, k)]

\* variant: the stake is taken off the theme's total
record_successful_log_debit(exposure, row, stake) ==
    LET theme_key == get_exposure_key(row.game_id, row.market, row.side) IN
    [k \in DOMAIN exposure \cup {theme_key} |->
        IF k = theme_key THEN ExposureGet(exposure, k) - stake
        ELSE exposure[k]]

\* record_successful_log: exposure[get_exposure_key(row)] += stake
record_successful_log(exposure, row, stake) ==
    LET theme_key == get_exposure_key(row.game_id, row.market, row.side) IN
    [k \in DOMAIN exposure \cup {theme_key} |->
        IF k = theme_key THEN ExposureGet(exposure, k) + stake
        ELSE exposure[k]]

NoRows == [rk \in RowKeys |-> AbsentRow]
NoExposure == [k \in {} |-> 0]

SysIdle ==
    /\ now = 0
    /\ snapshot = NoRows
    /\ csv = <<>>
    /\ pending = [k \in Keys |-> NoNum]
    /\ m_pc = "idle" /\ m_rows = NoRows /\ m_exposure = NoExposure
    /\ m_idx = 1 /\ m_changed = FALSE
    /\ b_exposure = NoExposure
    /\ op = "other"

DecideIdle ==
    /\ d_row = [game_id |-> GameId, market |-> SysMarket, side |-> SysSide,
                raw_kelly |-> 0, ev_percent |-> 0, market_odds |-> 0,
                hours_to_game |-> NoNum, book_count |-> 1,
                market_prob |-> NoNum]
    /\ d_exposure = NoExposure
    /\ d_prev = NoNum
    /\ d_entry = "first"
    /\ d_out = Reject("pending", 0, 0)
    /\ d_late = NoUpdate
    /\ d_pc = "off"


InitDecide ==
    /\ d_row \in DecideRows
    /\ d_exposure \in DecideExposures(d_row)
    /\ d_prev \in PrevInputs
    /\ d_entry \in {"first", "top-up"}
    /\ d_out = Reject("pending", 0, 0)
    /\ d_late = NoUpdate
    /\ d_pc = "input"
    /\ SysIdle /\ XIdle

\* one call of should_log_bet on the drawn input
Decide ==
    /\ d_pc = "input"
    /\ d_out' = should_log_bet(d_row, d_exposure, d_prev)
    /\ d_pc' = "decided"
    /\ UNCHANGED <<d_row, d_exposure, d_prev, d_entry, d_late, svars, xvars>>

\* one call of evaluate_late_confirmed_bet on the same candidate
LateConfirm ==
    /\ d_pc = "decided"
    /\ d_late' = evaluate_late_confirmed_bet(
                     d_row, d_prev, d_entry, d_row.market_prob,
                     ExposureGet(d_exposure,
                         DecisionThemeKey(d_row.game_id, d_row.market,
                                          d_row.side)))
    /\ d_pc' = "late"
    /\ UNCHANGED <<d_row, d_exposure, d_prev, d_entry, d_out, svars, xvars>>

NextDecide == Decide \/ LateConfirm

SpecDecide == InitDecide /\ [][NextDecide]_vars

\* ------------------------------------------------------------------------
\* Properties of the decision function (checked under SpecDecide)
\* ------------------------------------------------------------------------
Decided == d_pc \in {"decided", "late"}

DecidedThemeTotal ==
    ExposureGet(d_exposure,
                DecisionThemeKey(d_row.game_id, d_row.market, d_row.side))

\* the reported movement is below the reported required move
DecidedMoveBelowRequired ==
    d_out.movement * MilsPerMoveDen < d_out.required_movement

Verdict(out) == <<out.log, out.stake, out.entry_type, out.skip_reason>>

\* the gates ahead of stake sizing, stated on the input alone
OddsOutOfRange == d_row.market_odds > 200 \/ d_row.market_odds < -150
EvBelowThreshold == d_row.ev_percent < EvThreshold(d_row.market)
MoveUnconfirmed ==
    /\ d_prev # NoNum
    /\ (d_row.market_prob - d_prev) * MilsPerMoveDen < Threshold(d_row)
    /\ DecidedThemeTotal = 0
TooEarly ==
    /\ normalize_segment(d_row.market) \in {"1st_3", "1st_7", "team_totals"}
    /\ d_row.hours_to_game # NoNum
    /\ d_row.hours_to_game > 12
EarlierGatesPass ==
    ~OddsOutOfRange /\ ~EvBelowThreshold /\ ~MoveUnconfirmed /\ ~TooEarly

\* C2: whenever theme exposure is zero and the observed movement is below
\* the required move, should_log_bet does not accept the candidate: no
\* first bet is accepted without confirming movement.
C2_FirstBetRequiresConfirmation ==
    (Decided /\ DecidedThemeTotal = 0 /\ d_out.log)
        => ~DecidedMoveBelowRequired

\* C2 (case reached): a first bet accepted although no movement was observed
C2_UnconfirmedFirstAccepted ==
    /\ Decided
    /\ d_out.log /\ d_out.entry_type = "first"
    /\ d_prev = NoNum
    /\ d_out.movement = 0 /\ d_out.required_movement > 0

C4_FirstStakeIsRawKelly ==
    (Decided /\ DecidedThemeTotal = 0 /\ EarlierGatesPass) =>
        IF d_row.raw_kelly < 100
        THEN ~d_out.log /\ d_out.skip_reason = "low_initial"
        ELSE /\ d_out.log /\ d_out.entry_type = "first"
             /\ d_out.stake = d_row.raw_kelly

\* C4 (case reached): raw_kelly of 1.0 unit with zero exposure is rejected
\* low_initial
C4_UnitKellyRejected ==
    /\ Decided /\ DecidedThemeTotal = 0 /\ EarlierGatesPass
    /\ d_row.raw_kelly = 100
    /\ d_out.skip_reason = "low_initial"

\* C5: with nonzero theme exposure, delta = raw_kelly - theme_exposure
\* decides the verdict: >= 0.5 top-up with stake delta, between 0 and 0.5
\* low_topup, <= 0 already_logged.
C5_TopUpByRawKellyDelta ==
    (Decided /\ DecidedThemeTotal # 0 /\ EarlierGatesPass) =>
        LET delta == d_row.raw_kelly - DecidedThemeTotal IN
        IF delta >= 50
        THEN d_out.log /\ d_out.entry_type = "top-up" /\ d_out.stake = delta
        ELSE IF delta > 0
        THEN ~d_out.log /\ d_out.skip_reason = "low_topup"
        ELSE ~d_out.log /\ d_out.skip_reason = "already_logged"

\* C5 (case reached): exposure 1.0 and raw_kelly 1.3 is rejected
\* already_logged
C5_ExampleAlreadyLogged ==
    /\ Decided /\ DecidedThemeTotal = 100 /\ EarlierGatesPass
    /\ d_row.raw_kelly = 130
    /\ d_out.skip_reason = "already_logged"

PresentIdx(rows, k) ==
    {i \in 1..Len(RowOrder) : RowOrder[i][1] = k /\ rows[RowOrder[i]].present}

\* load_snapshot_tracker: tracker[key] is the last row of the key in the file
load_snapshot_tracker(rows, k) ==
    IF PresentIdx(rows, k) = {} THEN AbsentRow
    ELSE rows[RowOrder[CHOOSE i \in PresentIdx(rows, k) :
                          \A j \in PresentIdx(rows, k) : j <= i]]

\* variant: no baseline assigned when neither the prior row nor the tracker
\* has one
AssignBaselineUnset(prior_baseline, fallback, consensus_prob) ==
    IF prior_baseline # NoNum THEN prior_baseline ELSE fallback

\* variant: the anchor re-set to the current consensus on every build
AssignBaselineFresh(prior_baseline, fallback, consensus_prob) ==
    consensus_prob

\* baseline of a freshly built row: prior snapshot row, else tracker entry,
\* else the current consensus probability
AssignBaseline(prior_baseline, fallback, consensus_prob) ==
    IF prior_baseline # NoNum THEN prior_baseline
    ELSE IF fallback # NoNum THEN fallback
    ELSE consensus_prob

\* _merge_persistent_fields for one row: a field is taken from the prior row
\* when the fresh value is None or False
merge_persistent_fields(row, prior) ==
    IF ~prior.present THEN row
    ELSE [row EXCEPT
            !.queued = IF row.queued = FALSE THEN prior.queued ELSE @,
            !.logged = IF row.logged = FALSE THEN prior.logged ELSE @,
            !.skip_reason = IF row.skip_reason = NoVal
                            THEN prior.skip_reason ELSE @,
            !.baseline = IF row.baseline = NoNum THEN prior.baseline ELSE @]

\* one row of build_snapshot_for_date followed by the merge of main
BuildRow(prior_rows, rk, prob, kelly) ==
    LET prior == prior_rows[rk]
        tracker_entry == load_snapshot_tracker(prior_rows, rk[1])
        fresh ==
            [present |-> TRUE,
             baseline |-> AssignBaseline(
                 IF prior.present THEN prior.baseline ELSE NoNum,
                 tracker_entry.baseline, prob),
             market_prob |-> prob, raw_kelly |-> kelly,
             hours_to_game |-> StartTime - now,
             logged |-> FALSE, queued |-> FALSE, skip_reason |-> NoVal]
    IN  merge_persistent_fields(fresh, prior)

\* One poll: games that have started yield no rows, and a build without
\* rows writes no snapshot.
GenPoll ==
    /\ now < StartTime
    /\ \E quoted \in QuotedSets, prob \in Probs,
          kelly \in SysKellys :
          snapshot' =
              [rk \in RowKeys |->
                  IF rk[2] \in quoted
                  THEN BuildRow(snapshot, rk, prob, kelly)
                  ELSE AbsentRow]
    /\ op' = "poll"
    /\ b_exposure' = NoExposure
    /\ UNCHANGED <<now, csv, pending, mvars, dvars, xvars>>

Tick ==
    /\ now < MaxClock
    /\ now' = now + 1
    /\ op' = "other"
    /\ b_exposure' = NoExposure
    /\ UNCHANGED <<snapshot, csv, pending, mvars, dvars, xvars>>

\* ------------------------------------------------------------------------
\* Ledger writes (write_to_csv) and the exposure update that follows
\* ------------------------------------------------------------------------
\* written: the row is appended and returned; failed: an exception inside
\* the try block (a missing required column, an I/O error), nothing appended
\* and None returned
WriteOutcomes == {"written", "failed"}

Appended(outcome) == outcome = "written"
Returned(outcome) == outcome = "written"

\* the ledger row of an evaluation
CsvRow(evaluation) ==
    [game_id |-> GameId, market |-> SysMarket, side |-> SysSide,
     entry_type |-> evaluation.entry_type,
     stake |-> evaluation.stake, skip_reason |-> evaluation.skip_reason]

write_to_csv(ledger, evaluation, outcome) ==
    IF Appended(outcome) THEN Append(ledger, CsvRow(evaluation))
    ELSE ledger

\* variant: exposure recorded whatever the write returned
RecordGuardAlways(returned, skip_reason) == TRUE

\* if result and not result.get("skip_reason")
RecordGuard(returned, skip_reason) == returned /\ skip_reason = NoVal

\* if evaluation.get("log") and not evaluation.get("skip_reason")
Accepted(evaluation) == evaluation.log /\ evaluation.skip_reason = NoVal

SnapshotHasRows(rows) == \E rk \in RowKeys : rows[rk].present

\* ------------------------------------------------------------------------
\* scripts/monitor_early_bets.py: recheck_pending_bets
\* ------------------------------------------------------------------------
MonLoad ==
    /\ m_pc = "idle"
    /\ SnapshotHasRows(snapshot)
    /\ m_pc' = "run"
    /\ m_rows' = snapshot
    /\ m_exposure' = build_theme_exposure_tracker(csv)
    /\ m_idx' = 1
    /\ m_changed' = FALSE
    /\ op' = "other"
    /\ b_exposure' = NoExposure
    /\ UNCHANGED <<now, snapshot, csv, pending, dvars, xvars>>

\* one iteration of the loop over the loaded rows
MonStep ==
    /\ m_pc = "run"
    /\ m_idx <= Len(RowOrder)
    /\ LET rk == RowOrder[m_idx]
           row == m_rows[rk]
       IN  IF ~row.present \/ row.logged
           THEN UNCHANGED <<m_rows, m_exposure, m_changed, csv>>
           ELSE \E prev \in TrackerPrevs, outcome \in WriteOutcomes :
                  LET evaluation ==
                          should_log_bet(RowInput(row), m_exposure, prev)
                  IN  IF Accepted(evaluation)
                      THEN /\ Appended(outcome) => Len(csv) < MaxCsv
                           /\ csv' = write_to_csv(csv, evaluation, outcome)
                           /\ IF RecordGuard(Returned(outcome),
                                             evaluation.skip_reason)
                              THEN /\ m_exposure' =
                                        record_successful_log(
                                            m_exposure, RowInput(row),
                                            evaluation.stake)
                                   /\ m_rows' =
                                        [m_rows EXCEPT ![rk] =
                                            [row EXCEPT
                                               !.logged = TRUE,
                                               !.queued = FALSE,
                                               !.skip_reason = NoVal]]
                              ELSE /\ m_exposure' = m_exposure
                                   /\ m_rows' =
                                        [m_rows EXCEPT ![rk].queued = TRUE]
                           /\ m_changed' = TRUE
                      ELSE /\ outcome = "failed"
                           /\ m_rows' =
                                [m_rows EXCEPT ![rk] =
                                    [row EXCEPT
                                       !.skip_reason = evaluation.skip_reason,
                                       !.queued = TRUE]]
                           /\ m_changed' = TRUE
                           /\ UNCHANGED <<m_exposure, csv>>
    /\ m_idx' = m_idx + 1
    /\ op' = "other"
    /\ b_exposure' = NoExposure
    /\ UNCHANGED <<now, snapshot, pending, m_pc, dvars, xvars>>

\* end of the loop: the loaded rows are written back when any row changed
MonSave ==
    /\ m_pc = "run"
    /\ m_idx > Len(RowOrder)
    /\ snapshot' = IF m_changed THEN m_rows ELSE snapshot
    /\ m_pc' = "idle"
    /\ m_rows' = NoRows
    /\ m_exposure' = NoExposure
    /\ m_idx' = 1
    /\ m_changed' = FALSE
    /\ op' = "other"
    /\ b_exposure' = NoExposure
    /\ UNCHANGED <<now, csv, pending, dvars, xvars>>

\* ------------------------------------------------------------------------
\* cli/log_betting_evals.py: run_batch_logging
\* ------------------------------------------------------------------------
\* rows that are queued and not logged
PendingIdx(rows) ==
    {i \in 1..Len(RowOrder) :
        /\ rows[RowOrder[i]].present
        /\ rows[RowOrder[i]].queued
        /\ ~rows[RowOrder[i]].logged}

\* cache_theme_bet: of equal-EV rows of a theme the last one is kept
BestPendingIdx(rows) ==
    CHOOSE i \in PendingIdx(rows) : \A j \in PendingIdx(rows) : j <= i

\* evaluate_snapshot_row_for_logging and the marking of the row by the
\* caller; prev is what the snapshot tracker holds for the row
BatchLogRow(rk, row, exposure, prev, outcome) ==
    LET evaluation == should_log_bet(RowInput(row), exposure, prev) IN
    IF Accepted(evaluation)
    THEN /\ Appended(outcome) => Len(csv) < MaxCsv
         /\ csv' = write_to_csv(csv, evaluation, outcome)
         /\ b_exposure' =
              IF RecordGuard(Returned(outcome), evaluation.skip_reason)
              THEN record_successful_log(exposure, RowInput(row),
                                         evaluation.stake)
              ELSE exposure
         /\ snapshot' =
              IF Returned(outcome)
              THEN [snapshot EXCEPT ![rk] =
                      [row EXCEPT !.logged = TRUE, !.queued = FALSE,
                                  !.skip_reason = NoVal]]
              ELSE snapshot
    ELSE /\ outcome = "failed"
         /\ snapshot' =
              [snapshot EXCEPT ![rk].skip_reason = evaluation.skip_reason]
         /\ b_exposure' = exposure
         /\ csv' = csv

\* One run: the snapshot and the ledger are loaded, the best queued row of
\* the theme is evaluated, and the rows are written back.  The tracker is
\* keyed by the raw side and looked up by the normalised side; hit says
\* whether the two agree, in which case the previous probability is the
\* row's own.
BatchRun ==
    /\ SnapshotHasRows(snapshot)
    /\ LET exposure == build_theme_exposure_tracker(csv) IN
       IF PendingIdx(snapshot) = {}
       THEN /\ b_exposure' = exposure
            /\ UNCHANGED <<snapshot, csv>>
       ELSE LET rk == RowOrder[BestPendingIdx(snapshot)]
                row == snapshot[rk]
            IN  \E hit \in BOOLEAN, outcome \in WriteOutcomes :
                  LET prev == IF hit
                              THEN load_snapshot_tracker(snapshot, rk[1]).market_prob
                              ELSE NoNum
                      first_pass ==
                          should_log_bet(RowInput(row), NoExposure, prev)
                  IN  IF ~first_pass.log
                      THEN /\ outcome = "failed"
                           /\ snapshot' = [snapshot EXCEPT
                                   ![rk].skip_reason = first_pass.skip_reason]
                           /\ b_exposure' = exposure
                           /\ csv' = csv
                      ELSE BatchLogRow(rk, row, exposure, prev, outcome)
    /\ op' = "batch"
    /\ UNCHANGED <<now, pending, mvars, dvars, xvars>>

\* ------------------------------------------------------------------------
\* Pending bets: scripts/update_pending_from_snapshot.py and
\* cli/monitor_early_bets.py
\* ------------------------------------------------------------------------
\* pending_bets.json rebuilt from the snapshot; a stored baseline is kept
UpdatePending ==
    /\ SnapshotHasRows(snapshot)
    /\ pending' =
          [k \in Keys |->
              IF pending[k] # NoNum THEN pending[k]
              ELSE load_snapshot_tracker(snapshot, k).baseline]
    /\ pending' # pending
    /\ op' = "other"
    /\ b_exposure' = NoExposure
    /\ UNCHANGED <<now, snapshot, csv, mvars, dvars, xvars>>

\* recheck of the pending bet of a MarketKey; Keys holds one MarketKey, so a
\* run rechecks at most one bet
PendRecheck ==
    /\ \E k \in Keys :
        /\ pending[k] # NoNum
        /\ IF now >= StartTime
           THEN /\ pending' = [pending EXCEPT ![k] = NoNum]
                /\ csv' = csv
           ELSE LET row == load_snapshot_tracker(snapshot, k)
                IN  /\ row.present
                    /\ (row.market_prob - pending[k]) * MilsPerMoveDen
                          >= required_market_move(row.hours_to_game,
                                 SysQuote.book_count, SysMarket,
                                 SysQuote.ev_percent)
                    /\ \E prev \in TrackerPrevs, outcome \in WriteOutcomes :
                          LET evaluation ==
                                should_log_bet(RowInput(row),
                                    build_theme_exposure_tracker(csv), prev)
                          IN  /\ Appended(outcome) => Len(csv) < MaxCsv
                              /\ csv' = write_to_csv(csv, evaluation, outcome)
                    /\ pending' = pending
    /\ op' = "other"
    /\ b_exposure' = NoExposure
    /\ UNCHANGED <<now, snapshot, mvars, dvars, xvars>>

\* ------------------------------------------------------------------------
\* The system
\* ------------------------------------------------------------------------
Init == SysIdle /\ DecideIdle /\ XIdle

Next ==
    \/ Tick
    \/ GenPoll
    \/ MonLoad \/ MonStep \/ MonSave
    \/ BatchRun
    \/ UpdatePending
    \/ PendRecheck

Spec == Init /\ [][Next]_vars

\* ------------------------------------------------------------------------
\* System properties
\* ------------------------------------------------------------------------
\* a ledger row that records a logged bet
LoggedEntry(r) == r.skip_reason = NoVal /\ r.entry_type \in {"first", "top-up"}

\* the rows of the ledger before position j that record a bet of r's theme
EarlierOfTheme(j) ==
    {i \in 1..(j - 1) : LoggedEntry(csv[i]) /\ LedgerKey(csv[i]) = LedgerKey(csv[j])}

\* the step appends one logged bet and raises the exposure of its theme,
\* and only of its theme, by its stake
ConfirmedAppend(before, after) ==
    /\ Len(csv') = Len(csv) + 1
    /\ LET r == csv'[Len(csv')] IN
        /\ LoggedEntry(r)
        /\ \A k \in DOMAIN after :
              ExposureGet(after, k) =
                  ExposureGet(before, k) + (IF k = LedgerKey(r) THEN r.stake ELSE 0)
        /\ \A k \in DOMAIN before : k \in DOMAIN after

C7_OneFirstThenTopUps ==
    \A j \in 1..Len(csv) :
        LoggedEntry(csv[j]) =>
            (csv[j].entry_type = "first" <=> EarlierOfTheme(j) = {})

\* C7 (case reached): two entries of type first are logged for one theme
C7_TwoFirstBets ==
    \E i, j \in 1..Len(csv) :
        /\ i < j
        /\ LoggedEntry(csv[i]) /\ LoggedEntry(csv[j])
        /\ LedgerKey(csv[i]) = LedgerKey(csv[j])
        /\ csv[i].entry_type = "first" /\ csv[j].entry_type = "first"

\* C8: once the game has started, no step appends a first bet or a top-up
\* to the ledger.
C8_NoBetAfterStart ==
    [][(now >= StartTime /\ Len(csv') > Len(csv))
          => ~LoggedEntry(csv'[Len(csv')])]_vars

C10_LedgerOnlyAccepted ==
    \A i \in 1..Len(csv) : LoggedEntry(csv[i])

\* C10 (case reached): the ledger holds the row of a rejected evaluation
C10_RejectedRowInLedger ==
    \E i \in 1..Len(csv) : csv[i].skip_reason # NoVal /\ csv[i].stake = 0

\* every value of an exposure map is >= 0
NonNegative(exposure) == \A k \in DOMAIN exposure : exposure[k] >= 0

\* C11: theme exposure never goes negative, whether seeded from the ledger
\* (build_theme_exposure_tracker) or updated after a logged bet
\* (record_successful_log), in the monitor and in the batch logger.
C11_ExposureNonNegative ==
    /\ NonNegative(build_theme_exposure_tracker(csv))
    /\ NonNegative(m_exposure)
    /\ NonNegative(b_exposure)

\* C11 (case reached): the monitor has raised a seeded, positive theme total
\* by a top-up
C11_ExposureAfterTopUp ==
    /\ m_pc = "run" /\ m_changed
    /\ Len(csv) = 2
    /\ LoggedEntry(csv[2]) /\ csv[2].entry_type = "top-up"
    /\ ExposureGet(m_exposure, LedgerKey(csv[2])) = csv[1].stake + csv[2].stake
    /\ csv[1].stake > 0

\* ------------------------------------------------------------------------
\* The snapshot directory: writers and readers of market_snapshot_*.json
\* ------------------------------------------------------------------------
\* modification times handed out in a run
MaxWrites == 2

\* rows appended to the ledger in a run
MaxAppends == 1

\* A file name is the sequence of its dot-separated parts after
\* "market_snapshot_": <<timestamp, "json">> is market_snapshot_<ts>.json.
Stamps == {"T0", "T1"}

\* final_path of the generator (main, line 641)
FinalName(ts) == <<ts, "json">>

\* variant: the generator writes the rows straight into the final path
GenTmpNameInPlace(final) == final

\* tmp_path of the generator (main, line 642): market_snapshot_<ts>.tmp
GenTmpName(final) == <<final[1], "tmp">>

\* bad_path = final_path + ".bad.json" (main, line 689)
BadName(final) == final \o <<"bad", "json">>

\* tmp = path + ".tmp" of a logger's write-back
LogTmpName(path) == path \o <<"tmp">>

SnapNames == {FinalName(ts) : ts \in Stamps}

FileNames ==
    SnapNames
    \cup {GenTmpName(n) : n \in SnapNames}
    \cup {BadName(n) : n \in SnapNames}
    \cup {LogTmpName(n) : n \in SnapNames}
    \cup {LogTmpName(BadName(n)) : n \in SnapNames}

\* glob market_snapshot_*.json: the name ends in .json
MatchesGlob(n) == n[Len(n)] = "json"

GlobNames == {n \in FileNames : MatchesGlob(n)}

NoFile == [state |-> "absent", by |-> "none", mtime |-> 0]

Exists(files, n) == files[n].state # "absent"

\* os.rename / os.replace / shutil.move within the directory: the target
\* takes the source's content and modification time in one step
Rename(files, from, to) ==
    IF from = to THEN files
    ELSE [files EXCEPT ![to] = files[from], ![from] = NoFile]

\* find_latest_market_snapshot_path: max(glob(...), key=os.path.getmtime),
\* <<>> standing for None
find_latest_market_snapshot_path(files) ==
    LET matches == {n \in GlobNames : Exists(files, n)} IN
    IF matches = {} THEN <<>>
    ELSE CHOOSE n \in matches :
            \A o \in matches : files[o].mtime <= files[n].mtime

\* core.lock_utils.with_locked_file, an advisory lock: the block is entered
\* when no other process holds the lock of the file
with_locked_file(locks, n) == locks[n] = "free"

\* the two processes that write the loaded rows back to the snapshot
Loggers == {"monitor", "batch"}

\* one committed snapshot, written by an earlier generator run
InitFiles ==
    /\ fs = [n \in FileNames |->
                IF n = FinalName("T0")
                THEN [state |-> "complete", by |-> "generator", mtime |-> 0]
                ELSE NoFile]
    /\ f_lock = [n \in GlobNames \cup {<<"ledger">>} |-> "free"]
    /\ f_clock = 1
    /\ f_ledger = 0
    /\ g_pc = "idle" /\ g_final = FinalName("T0")
    /\ l_pc = [l \in Loggers |-> "idle"]
    /\ l_path = [l \in Loggers |-> FinalName("T0")]
    /\ r_pc = "idle" /\ r_path = <<>> /\ r_seen = "unread"
    /\ SysIdle /\ DecideIdle
    /\ MergeIdle /\ ReconcileIdle /\ CallIdle /\ LoopIdle /\ RowIdle

FilesFrame == UNCHANGED <<dvars, svars, mgvars, rcvars, clvars, lpvars, envars>>

\* --- unified_snapshot_generator.main, lines 640-707 ---
\* the timestamp has minute resolution: the final path is that of the
\* existing snapshot or a new one
GenStart ==
    /\ g_pc = "idle"
    /\ f_clock < MaxWrites
    /\ \E ts \in Stamps : g_final' = FinalName(ts)
    /\ g_pc' = "open"
    /\ UNCHANGED <<fs, f_lock, f_clock, f_ledger, l_pc, l_path, r_pc, r_path, r_seen>>
    /\ FilesFrame

\* open(tmp_path, "w"): the file exists and is incomplete
GenOpen ==
    /\ g_pc = "open"
    /\ fs' = [fs EXCEPT ![GenTmpName(g_final)] =
                [state |-> "partial", by |-> "generator", mtime |-> f_clock]]
    /\ g_pc' = "write"
    /\ UNCHANGED <<f_lock, f_clock, f_ledger, g_final, l_pc, l_path, r_pc, r_path, r_seen>>
    /\ FilesFrame

\* the rows are written and the file closed; what is on disk parses or not
GenWrite ==
    /\ g_pc = "write"
    /\ \E parses \in BOOLEAN :
          fs' = [fs EXCEPT ![GenTmpName(g_final)] =
                   [state |-> IF parses THEN "complete" ELSE "corrupt",
                    by |-> "generator", mtime |-> f_clock]]
    /\ f_clock' = f_clock + 1
    /\ g_pc' = "validate"
    /\ UNCHANGED <<f_lock, f_ledger, g_final, l_pc, l_path, r_pc, r_path, r_seen>>
    /\ FilesFrame

\* json.load(tmp_path); on failure the file is moved to bad_path
GenValidate ==
    /\ g_pc = "validate"
    /\ IF fs[GenTmpName(g_final)].state = "complete"
       THEN /\ g_pc' = "remove"
            /\ fs' = fs
       ELSE /\ g_pc' = "idle"
            /\ fs' = Rename(fs, GenTmpName(g_final), BadName(g_final))
    /\ UNCHANGED <<f_lock, f_clock, f_ledger, g_final, l_pc, l_path, r_pc, r_path, r_seen>>
    /\ FilesFrame

\* if os.path.exists(final_path): os.remove(final_path)
GenRemove ==
    /\ g_pc = "remove"
    /\ fs' = IF Exists(fs, g_final) /\ GenTmpName(g_final) # g_final
             THEN [fs EXCEPT ![g_final] = NoFile]
             ELSE fs
    /\ g_pc' = "rename"
    /\ UNCHANGED <<f_lock, f_clock, f_ledger, g_final, l_pc, l_path, r_pc, r_path, r_seen>>
    /\ FilesFrame

\* os.rename(tmp_path, final_path)
GenRename ==
    /\ g_pc = "rename"
    /\ fs' = Rename(fs, GenTmpName(g_final), g_final)
    /\ g_pc' = "idle"
    /\ UNCHANGED <<f_lock, f_clock, f_ledger, g_final, l_pc, l_path, r_pc, r_path, r_seen>>
    /\ FilesFrame

\* --- a logger: run_batch_logging (2475-2625), recheck_pending_bets with
\* _load_snapshot / _save_snapshot (scripts/monitor_early_bets.py 27-40) ---
LogFrame == UNCHANGED <<g_pc, g_final, r_pc, r_path, r_seen>>

\* snapshot_path = find_latest_market_snapshot_path(); nothing to do
\* without a path
LogLoad(l) ==
    /\ l_pc[l] = "idle"
    /\ f_clock < MaxWrites
    /\ find_latest_market_snapshot_path(fs) # <<>>
    /\ l_path' = [l_path EXCEPT ![l] = find_latest_market_snapshot_path(fs)]
    /\ l_pc' = [l_pc EXCEPT ![l] = "loaded"]
    /\ UNCHANGED <<fs, f_lock, f_clock, f_ledger>>
    /\ LogFrame /\ FilesFrame

\* write_to_csv: the row is appended to the ledger file where it is
LogAppend(l) ==
    /\ l_pc[l] = "loaded"
    /\ f_ledger < MaxAppends
    /\ f_ledger' = f_ledger + 1
    /\ UNCHANGED <<fs, f_lock, f_clock, l_pc, l_path>>
    /\ LogFrame /\ FilesFrame

\* with with_locked_file(path + ".lock"): one holder at a time
LogLock(l) ==
    /\ l_pc[l] = "loaded"
    /\ with_locked_file(f_lock, l_path[l])
    /\ f_lock' = [f_lock EXCEPT ![l_path[l]] = l]
    /\ l_pc' = [l_pc EXCEPT ![l] = "locked"]
    /\ UNCHANGED <<fs, f_clock, f_ledger, l_path>>
    /\ LogFrame /\ FilesFrame

\* open(tmp, "w")
LogOpen(l) ==
    /\ l_pc[l] = "locked"
    /\ fs' = [fs EXCEPT ![LogTmpName(l_path[l])] =
                [state |-> "partial", by |-> l, mtime |-> f_clock]]
    /\ l_pc' = [l_pc EXCEPT ![l] = "dump"]
    /\ UNCHANGED <<f_lock, f_clock, f_ledger, l_path>>
    /\ LogFrame /\ FilesFrame

\* json.dump(rows, f) and close; what is on disk parses or not
LogDump(l) ==
    /\ l_pc[l] = "dump"
    /\ \E parses \in BOOLEAN :
          fs' = [fs EXCEPT ![LogTmpName(l_path[l])] =
                   [state |-> IF parses THEN "complete" ELSE "corrupt",
                    by |-> l, mtime |-> f_clock]]
    /\ f_clock' = f_clock + 1
    /\ l_pc' = [l_pc EXCEPT ![l] = "replace"]
    /\ UNCHANGED <<f_lock, f_ledger, l_path>>
    /\ LogFrame /\ FilesFrame

\* os.replace(tmp, path)
LogReplace(l) ==
    /\ l_pc[l] = "replace"
    /\ fs' = Rename(fs, LogTmpName(l_path[l]), l_path[l])
    /\ l_pc' = [l_pc EXCEPT ![l] = "unlock"]
    /\ UNCHANGED <<f_lock, f_clock, f_ledger, l_path>>
    /\ LogFrame /\ FilesFrame

\* leaving the with block
LogUnlock(l) ==
    /\ l_pc[l] = "unlock"
    /\ f_lock' = [f_lock EXCEPT ![l_path[l]] = "free"]
    /\ l_pc' = [l_pc EXCEPT ![l] = "idle"]
    /\ UNCHANGED <<fs, f_clock, f_ledger, l_path>>
    /\ LogFrame /\ FilesFrame

\* --- a reader: load_latest_snapshot (snapshot_core.py 92-106),
\* _load_prior_snapshot_map (unified_snapshot_generator.py 283-301) ---
ReadFrame == UNCHANGED <<fs, f_lock, f_clock, f_ledger, g_pc, g_final, l_pc, l_path>>

\* the newest match of the glob
ReadGlob ==
    /\ r_pc = "idle"
    /\ r_path' = find_latest_market_snapshot_path(fs)
    /\ r_pc' = "open"
    /\ r_seen' = "unread"
    /\ ReadFrame /\ FilesFrame

\* if not path or not os.path.exists(path): return {}; else the content
ReadOpen ==
    /\ r_pc = "open"
    /\ r_seen' = IF r_path = <<>> THEN "none-found"
                 ELSE IF ~Exists(fs, r_path) THEN "empty"
                 ELSE fs[r_path].state
    /\ r_pc' = "done"
    /\ UNCHANGED r_path
    /\ ReadFrame /\ FilesFrame

\* the next read
ReadAgain ==
    /\ r_pc = "done"
    /\ r_pc' = "idle"
    /\ r_seen' = "unread"
    /\ r_path' = <<>>
    /\ ReadFrame /\ FilesFrame

NextFiles ==
    \/ GenStart
    \/ GenOpen
    \/ GenWrite
    \/ GenValidate
    \/ GenRemove
    \/ GenRename
    \/ \E l \in Loggers : LogLoad(l)
    \/ \E l \in Loggers : LogAppend(l)
    \/ \E l \in Loggers : LogLock(l)
    \/ \E l \in Loggers : LogOpen(l)
    \/ \E l \in Loggers : LogDump(l)
    \/ \E l \in Loggers : LogReplace(l)
    \/ \E l \in Loggers : LogUnlock(l)
    \/ ReadGlob
    \/ ReadOpen
    \/ ReadAgain

SpecFiles == InitFiles /\ [][NextFiles]_vars

LockedRename(n) ==
    /\ f_lock[n] # "free"
    /\ \E t \in FileNames \ GlobNames :
          /\ Exists(fs, t)
          /\ fs'[n] = fs[t]
          /\ ~Exists(fs', t)

\* C13: every step that changes a shared durable file (a file the snapshot
\* glob matches, or the ledger) is made while that file's lock is held and
\* publishes the content by renaming a temporary file.
C13_WritesLockedAndRenamed ==
    [][/\ \A n \in GlobNames : fs'[n] # fs[n] => LockedRename(n)
       /\ f_ledger' # f_ledger => f_lock[<<"ledger">>] # "free"]_vars

\* a logger's write-back follows the protocol: it publishes a snapshot by
\* a rename under the lock
C13_LoggerPublishedUnderLock ==
    \E l \in Loggers :
        /\ l_pc[l] = "unlock"
        /\ f_lock[l_path[l]] = l
        /\ fs[l_path[l]].by = l

\* C14: a read never ends as if there were no prior snapshot: a reader that
\* finds the snapshot absent or being replaced retries until it has read a
\* committed version (a committed snapshot exists from the first state on).
C14_ReaderNeverStartsFresh ==
    r_pc = "done" => r_seen \notin {"none-found", "empty"}

\* the reader globbed or opened the snapshot between the generator's
\* os.remove(final_path) and os.rename(tmp_path, final_path)
C14_ReadInsideReplaceWindow ==
    /\ r_pc = "done"
    /\ r_seen \in {"none-found", "empty"}
    /\ g_pc = "rename"
    /\ fs[GenTmpName(g_final)].state = "complete"

\* C16: corrupted content never replaces a snapshot: whichever process
\* writes, what does not parse is moved aside and no market_snapshot_<ts>.json
\* ever holds it.
C16_CorruptNeverPublished ==
    \A n \in SnapNames : fs[n].state # "corrupt"

\* the generator's validation has moved a corrupt temporary file aside
C16_GeneratorQuarantined ==
    \E n \in SnapNames :
        /\ fs[BadName(n)].state = "corrupt"
        /\ fs[BadName(n)].by = "generator"
        /\ fs[n].state # "corrupt"

\* ------------------------------------------------------------------------
\* Read-after-write of the ledger across polls
\* ------------------------------------------------------------------------
\* the outcome of a batch run for the row rk agrees with an evaluation ev
\* of that row
AgreesWith(rk, ev) ==
    IF Accepted(ev)
    THEN snapshot'[rk].logged \/ snapshot' = snapshot
    ELSE snapshot'[rk].skip_reason = ev.skip_reason /\ csv' = csv

\* C15: every evaluation of a run reads the stakes committed to the ledger
\* before the run: what a batch run decides for its row is what
\* should_log_bet decides with the theme exposure built from the ledger as
\* it was when the run started.
C15_EvaluationReadsCommittedStakes ==
    [][(op' = "batch" /\ PendingIdx(snapshot) # {}) =>
         LET rk == RowOrder[BestPendingIdx(snapshot)] IN
         \E hit \in BOOLEAN :
            AgreesWith(rk,
                should_log_bet(RowInput(snapshot[rk]),
                    build_theme_exposure_tracker(csv),
                    IF hit
                    THEN load_snapshot_tracker(snapshot, rk[1]).market_prob
                    ELSE NoNum))]_vars

\* a batch run has evaluated a queued row of a theme that has a committed
\* stake in the ledger
C15_BatchRunAfterCommit ==
    /\ op = "batch"
    /\ Len(csv) >= 1
    /\ \E rk \in RowKeys :
          /\ snapshot[rk].present
          /\ snapshot[rk].skip_reason # NoVal
          /\ ExposureGet(b_exposure, LedgerKey(csv[1])) > 0

\* ------------------------------------------------------------------------
\* Durable fields across snapshots: build_snapshot_for_date, _enrich_snapshot_row
\* and _merge_persistent_fields for one row
\* ------------------------------------------------------------------------
\* EV of a poll's quote, in tenths of a percent, and the row's raw Kelly
\* stake in cents
MergeEvs == {20, 60}
MergeKellys == {50, 400}
Stamped == {NoNum, 1}

\* the role tags _enrich_snapshot_row assigns from the row's own data:
\* "live" for ev_percent >= 3.0, "fv_drop" for a consensus above the
\* baseline with ev >= 5.0 and stake >= 1.0
EnrichRoles(baseline, market_prob, ev, stake) ==
    (IF ev >= 30 THEN {"live"} ELSE {})
    \cup (IF market_prob - baseline > 0 /\ ev >= 50 /\ stake >= 100
          THEN {"fv_drop"} ELSE {})

\* row.setdefault("skip_reason", "low_ev") of _enrich_snapshot_row
EnrichSkipReason(ev, raw_kelly, stake) ==
    IF ev < 50 /\ raw_kelly < 100 /\ stake < 100 THEN "low_ev" ELSE NoVal

NoPrior ==
    [present |-> FALSE, baseline |-> NoNum, market_prob |-> NoNum,
     queued |-> FALSE, logged |-> FALSE, logged_ts |-> NoNum,
     skip_reason |-> NoVal, snapshot_roles |-> {}]

\* rows a prior snapshot can hold: built by an earlier poll, then marked by
\* the loggers
PriorRows ==
    {[present |-> TRUE, baseline |-> b, market_prob |-> p,
      queued |-> q, logged |-> lg, logged_ts |-> ts, skip_reason |-> sr,
      snapshot_roles |-> EnrichRoles(b, p, ev, k)] :
        b \in Probs, p \in Probs, q \in BOOLEAN, lg \in BOOLEAN,
        ts \in Stamped, sr \in {NoVal, "not_confirmed"},
        ev \in MergeEvs, k \in MergeKellys}

InitMerge ==
    /\ mg_pc = "input"
    /\ mg_prior \in {r \in PriorRows : r.logged_ts # NoNum => r.logged}
                    \cup {NoPrior}
    /\ mg_in = <<>>
    /\ mg_row = <<>>
    /\ SysIdle /\ DecideIdle
    /\ FilesIdle /\ ReconcileIdle /\ CallIdle /\ LoopIdle /\ RowIdle

MergeFrame == UNCHANGED <<dvars, svars, fvars, rcvars, clvars, lpvars, envars>>

\* build_snapshot_for_date for the row: the baseline is assigned, the roles
\* are dropped and assigned afresh (lines 474-494)
MergeBuild ==
    /\ mg_pc = "input"
    /\ \E prob \in Probs, ev \in MergeEvs, kelly \in MergeKellys :
          LET baseline == AssignBaseline(mg_prior.baseline, NoNum, prob) IN
          /\ mg_in' = [market_prob |-> prob, ev_percent |-> ev,
                       raw_kelly |-> kelly]
          /\ mg_row' =
                [present |-> TRUE, baseline |-> baseline,
                 market_prob |-> prob,
                 queued |-> FALSE, logged |-> FALSE, logged_ts |-> NoNum,
                 skip_reason |-> EnrichSkipReason(ev, kelly, kelly),
                 snapshot_roles |-> EnrichRoles(baseline, prob, ev, kelly)]
    /\ mg_pc' = "built"
    /\ UNCHANGED mg_prior
    /\ MergeFrame

\* variant: the timestamp of the prior row is not carried
MergeDurableUnstamped(row, prior) == merge_persistent_fields(row, prior)

\* _merge_persistent_fields with the fields of this section: logged_ts is
\* merged like the others, snapshot_roles is passed over
MergeDurable(row, prior) ==
    LET merged == merge_persistent_fields(row, prior) IN
    IF ~prior.present THEN merged
    ELSE [merged EXCEPT
            !.logged_ts = IF row.logged_ts = NoNum THEN prior.logged_ts
                          ELSE @]

\* rows the merge filters out of the new snapshot
Dropped(row) ==
    /\ row.skip_reason \in {"low_ev", "time_blocked"}
    /\ ~row.queued
    /\ ~row.logged

\* main, line 645
MergeApply ==
    /\ mg_pc = "built"
    /\ mg_row' = MergeDurable(mg_row, mg_prior)
    /\ mg_pc' = IF Dropped(mg_row') THEN "dropped" ELSE "merged"
    /\ UNCHANGED <<mg_prior, mg_in>>
    /\ MergeFrame

NextMerge ==
    \/ MergeBuild
    \/ MergeApply

SpecMerge == InitMerge /\ [][NextMerge]_vars

\* C17: a row of the new snapshot that has a prior row of the same key
\* carries the prior row's durable fields: baseline, logged flag and
\* timestamp, the last skip reason where the build gave none, and the role
\* tags.
C17_DurableFieldsCarried ==
    (mg_pc = "merged" /\ mg_prior.present) =>
        /\ mg_row.baseline = mg_prior.baseline
        /\ mg_row.logged = mg_prior.logged
        /\ mg_row.logged_ts = mg_prior.logged_ts
        /\ (EnrichSkipReason(mg_in.ev_percent, mg_in.raw_kelly,
                             mg_in.raw_kelly) = NoVal
               => mg_row.skip_reason = mg_prior.skip_reason)
        /\ mg_prior.snapshot_roles \subseteq mg_row.snapshot_roles

\* a logged row with a skip reason and role tags was merged and kept its
\* baseline, logged flag, timestamp and skip reason
C17_MergedLoggedRow ==
    /\ mg_pc = "merged"
    /\ mg_prior.present /\ mg_prior.logged /\ mg_prior.logged_ts # NoNum
    /\ mg_prior.skip_reason # NoVal
    /\ mg_prior.snapshot_roles # {}
    /\ mg_row.baseline = mg_prior.baseline
    /\ mg_row.logged /\ mg_row.logged_ts = mg_prior.logged_ts
    /\ mg_row.skip_reason = mg_prior.skip_reason

\* ------------------------------------------------------------------------
\* scripts/reconcile_tracker_with_csv.py
\* ------------------------------------------------------------------------
\* A tracker key is the sequence of its parts between colons.
TrackerKeys ==
    {<<"G1", "totals", "Over">>, <<"G1", "h2h", "Home">>,
     <<"G2", "totals", "Over", "8.5">>, <<"G2", "totals">>}

\* (game_id, market, side) triples a ledger row can hold
CsvTriples ==
    {<<"G1", "totals", "Over">>, <<"G2", "totals", "Over">>}

NoTriple == <<>>

\* parse_tracker_key: the first three parts, (None, None, None) for a key
\* of fewer parts
parse_tracker_key(key) ==
    IF Len(key) >= 3 THEN <<key[1], key[2], key[3]>> ELSE NoTriple

InitReconcile ==
    /\ rc_pc = "start"
    /\ rc_file \in SUBSET TrackerKeys
    /\ rc_csv \in SUBSET CsvTriples
    /\ rc_mem = {}
    /\ SysIdle /\ DecideIdle
    /\ FilesIdle /\ MergeIdle /\ CallIdle /\ LoopIdle /\ RowIdle

ReconcileFrame == UNCHANGED <<dvars, svars, fvars, mgvars, clvars, lpvars, envars>>

\* csv_keys = load_csv_keys(...); tracker, _ = load_latest_snapshot_tracker();
\* an empty tracker ends the run
ReconcileLoad ==
    /\ rc_pc = "start"
    /\ rc_mem' = rc_file
    /\ rc_pc' = IF rc_file = {} THEN "done" ELSE "loaded"
    /\ UNCHANGED <<rc_file, rc_csv>>
    /\ ReconcileFrame

\* the loop over the keys: del tracker[key] for every parsed key that is
\* not in csv_keys
ReconcileDelete ==
    /\ rc_pc = "loaded"
    /\ rc_mem' = {key \in rc_mem :
                    \/ parse_tracker_key(key) = NoTriple
                    \/ parse_tracker_key(key) \in rc_csv}
    /\ rc_pc' = "cleaned"
    /\ UNCHANGED <<rc_file, rc_csv>>
    /\ ReconcileFrame

\* the counts are printed and the function returns
ReconcileReport ==
    /\ rc_pc = "cleaned"
    /\ rc_pc' = "done"
    /\ UNCHANGED <<rc_file, rc_mem, rc_csv>>
    /\ ReconcileFrame

NextReconcile ==
    \/ ReconcileLoad
    \/ ReconcileDelete
    \/ ReconcileReport

SpecReconcile == InitReconcile /\ [][NextReconcile]_vars

\* a tracker entry whose (game_id, market, side) has no ledger record
Phantom(key, csv_keys) ==
    /\ parse_tracker_key(key) # NoTriple
    /\ parse_tracker_key(key) \notin csv_keys

\* C18: after reconcile has run, the tracker holds no phantom entry.
C18_NoPhantomAfterReconcile ==
    rc_pc = "done" => \A key \in rc_file : ~Phantom(key, rc_csv)

\* the run found phantom entries and removed them from the tracker it
\* had loaded
C18_PhantomRemovedFromLoaded ==
    /\ rc_pc = "done"
    /\ \E key \in rc_file : Phantom(key, rc_csv) /\ key \notin rc_mem
    /\ \A key \in rc_mem : ~Phantom(key, rc_csv)

\* ------------------------------------------------------------------------
\* Rejections and their reasons
\* ------------------------------------------------------------------------
\* C19: no rejection is silent: an evaluation that does not accept returns
\* a result with log false and a non-empty skip reason, from should_log_bet
\* as from evaluate_late_confirmed_bet.
C19_EveryRejectionHasReason ==
    /\ (d_pc \in {"decided", "late"} /\ ~Accepted(d_out)) =>
          /\ ~d_out.log
          /\ d_out.skip_reason # NoVal
    /\ (d_pc = "late" /\ ~(d_late.returned /\ d_late.skip_reason = NoVal)) =>
          /\ d_late.returned
          /\ d_late.skip_reason # NoVal

\* should_log_bet rejected a top-up with a reason, and
\* evaluate_late_confirmed_bet, called for the same top-up whose delta is
\* below MIN_TOPUP_STAKE, returned nothing
C19_SmallTopUpEvaluated ==
    /\ d_pc = "late"
    /\ d_entry = "top-up"
    /\ d_prev # NoNum /\ d_row.hours_to_game # NoNum
    /\ DecidedThemeTotal > 0
    /\ d_row.raw_kelly - DecidedThemeTotal < MIN_TOPUP_STAKE
    /\ ~d_out.log /\ d_out.skip_reason # NoVal
    /\ ~d_late.returned

\* ------------------------------------------------------------------------
\* The loops that evaluate the rows of a poll, and the binding of the
\* keyword arguments of their calls
\* ------------------------------------------------------------------------
\* rows of a poll
MaxRows == 3

\* parameters a function declares (neither function takes **kwargs)
DeclaredParams(callee) ==
    IF callee = "should_log_bet"
    THEN {"row", "exposure", "verbose", "min_ev", "eval_tracker",
          "reference_tracker"}
    ELSE IF callee = "required_market_move"
    THEN {"hours_to_game", "book_count", "market", "ev_percent"}
    ELSE {}

\* the callers of should_log_bet, by the keywords of the call; the debug
\* script evaluates one row
CallSites ==
    {"shared_logging_logic", "monitor_early_bets", "run_batch_logging",
     "debug_should_log_bet"}

Keywords(site) ==
    IF site = "run_batch_logging"
    THEN {"csv_exposure", "verbose", "eval_tracker", "existing_csv_stakes"}
    ELSE IF site \in {"shared_logging_logic", "monitor_early_bets"}
    THEN {"verbose", "eval_tracker", "existing_csv_stakes"}
    ELSE IF site = "should_log_bet"
    THEN {"book_count", "market", "ev_percent", "agreement"}
    ELSE IF site = "debug_should_log_bet"
    THEN {"eval_tracker", "reference_tracker"}
    ELSE {}

\* Python binds a call's keywords to declared parameters only; any other
\* keyword raises TypeError
Binds(callee, keywords) == keywords \subseteq DeclaredParams(callee)

\* A row is already logged (passed over by the loop), is rejected by a gate
\* before the movement threshold is computed, or reaches line 400.
RowKinds == {"logged", "early_skip", "full"}

RECURSIVE SeqsUpTo(_, _)
SeqsUpTo(S, n) ==
    IF n = 0 THEN {<<>>}
    ELSE SeqsUpTo(S, n - 1)
         \cup {Append(s, x) : s \in {t \in SeqsUpTo(S, n - 1) : Len(t) = n - 1},
                              x \in S}

\* whether one evaluation of a row of the kind returns a result: the call
\* binds, and so does the call of required_market_move it makes
Returns(site, kind) ==
    /\ Binds("should_log_bet", Keywords(site))
    /\ kind = "full" =>
          Binds("required_market_move", Keywords("should_log_bet"))

InitCall ==
    /\ cl_pc = "loop"
    /\ cl_site \in CallSites
    /\ cl_rows \in SeqsUpTo(RowKinds, MaxRows)
    /\ cl_site = "debug_should_log_bet" => Len(cl_rows) <= 1
    /\ cl_idx = 1
    /\ cl_done = {}
    /\ cl_raised = FALSE
    /\ SysIdle /\ DecideIdle
    /\ FilesIdle /\ MergeIdle /\ ReconcileIdle /\ LoopIdle /\ RowIdle

CallFrame == UNCHANGED <<dvars, svars, fvars, mgvars, rcvars, lpvars, envars>>

\* if row.get("logged"): continue
CallSkipLogged ==
    /\ cl_pc = "loop"
    /\ cl_idx <= Len(cl_rows)
    /\ cl_rows[cl_idx] = "logged"
    /\ cl_idx' = cl_idx + 1
    /\ UNCHANGED <<cl_pc, cl_site, cl_rows, cl_done, cl_raised>>
    /\ CallFrame

\* evaluation = should_log_bet(row.copy(), ..., existing_csv_stakes=existing);
\* no caller catches what the call raises
CallEvaluate ==
    /\ cl_pc = "loop"
    /\ cl_idx <= Len(cl_rows)
    /\ cl_rows[cl_idx] # "logged"
    /\ IF Returns(cl_site, cl_rows[cl_idx])
       THEN /\ cl_done' = cl_done \cup {cl_idx}
            /\ cl_idx' = cl_idx + 1
            /\ UNCHANGED <<cl_pc, cl_raised>>
       ELSE /\ cl_raised' = TRUE
            /\ cl_pc' = "raised"
            /\ UNCHANGED <<cl_done, cl_idx>>
    /\ UNCHANGED <<cl_site, cl_rows>>
    /\ CallFrame

\* the loop has passed the last row
CallFinish ==
    /\ cl_pc = "loop"
    /\ cl_idx > Len(cl_rows)
    /\ cl_pc' = "done"
    /\ UNCHANGED <<cl_site, cl_rows, cl_idx, cl_done, cl_raised>>
    /\ CallFrame

NextCall ==
    \/ CallSkipLogged
    \/ CallEvaluate
    \/ CallFinish

SpecCall == InitCall /\ [][NextCall]_vars

\* C20: an evaluation never raises: each candidate of a poll ends with a
\* result of its own, and when the loop is left every row that was to be
\* evaluated has one.
C20_SkipsNeverRaised ==
    /\ ~cl_raised
    /\ cl_pc # "loop" =>
          cl_done = {i \in 1..Len(cl_rows) : cl_rows[i] # "logged"}

\* the loop was left at a row that was to be evaluated, with a later row
\* still to be evaluated
C20_LoopLeftBeforeLastRow ==
    /\ cl_pc = "raised"
    /\ \E i \in 1..Len(cl_rows) : i > cl_idx /\ cl_rows[i] # "logged"

\* ------------------------------------------------------------------------
\* cli/auto_sim_and_log_loop.py: the polling loop and what its calls do on
\* a failure
\* ------------------------------------------------------------------------
\* what the Odds API does at a fetch: answers with usable events, the
\* request fails (requests.exceptions.RequestException), the status is not
\* 200, the body of a 200 answer is not JSON, or no game has market entries
FetchOutcomes == {"ok", "request_error", "bad_status", "bad_body", "no_markets"}

\* fetch_all_market_odds: {} on a request error, None on a bad status and
\* on no markets; resp.json() (line 549) is outside every try block
fetch_all_market_odds(outcome) ==
    IF outcome = "request_error" THEN "empty"
    ELSE IF outcome \in {"bad_status", "no_markets"} THEN "none"
    ELSE IF outcome = "bad_body" THEN "raised"
    ELSE "odds"

\* what writing the odds cache does: written and parsed back, written but
\* not parsable, or open / json.dump fails (OSError)
SaveOutcomes == {"ok", "invalid", "io_error"}

\* save_market_odds_to_file: the write (lines 817-818) is outside the try
\* block; a file that does not parse back is moved aside and its new path
\* returned
save_market_odds_to_file(outcome) ==
    IF outcome = "io_error" THEN "raised"
    ELSE IF outcome = "invalid" THEN "bad_path"
    ELSE "path"

ExitCodes == {"exit0", "exit1"}

\* run_subprocess: subprocess.run(check=True) inside try / except
\* CalledProcessError; the exit code is returned either way
run_subprocess(code) == "returned"

\* background processes started with launch_process
ProcNames == {"dispatch", "LogBets"}

InitLoop ==
    /\ lp_pc = "fetch"
    /\ lp_odds = "none"
    /\ lp_path = "none"
    /\ lp_procs = [n \in ProcNames |-> "none"]
    /\ lp_seen = {}
    /\ SysIdle /\ DecideIdle
    /\ FilesIdle /\ MergeIdle /\ ReconcileIdle /\ CallIdle /\ RowIdle

LoopFrame == UNCHANGED <<dvars, svars, fvars, mgvars, rcvars, clvars, envars>>

\* poll_active_processes: exited processes are logged and removed
poll_active_processes(procs) ==
    [n \in ProcNames |-> IF procs[n] \in ExitCodes THEN "none" ELSE procs[n]]

\* top of the while loop: the cycle is due or not
LoopPoll ==
    /\ lp_pc = "poll"
    /\ lp_procs' = poll_active_processes(lp_procs)
    /\ \E due \in BOOLEAN : lp_pc' = IF due THEN "fetch" ELSE "sleep"
    /\ UNCHANGED <<lp_odds, lp_path, lp_seen>>
    /\ LoopFrame

\* fetch_and_cache_odds_snapshot, lines 107-111: an empty or invalid result
\* skips the cycle; nothing catches what the fetch raises
LoopFetch ==
    /\ lp_pc = "fetch"
    /\ \E outcome \in FetchOutcomes :
          /\ lp_odds' = fetch_all_market_odds(outcome)
          /\ lp_seen' = IF outcome = "ok" THEN lp_seen
                        ELSE lp_seen \cup {<<"fetch", outcome>>}
    /\ lp_pc' = IF lp_odds' = "raised" THEN "crashed"
                ELSE IF lp_odds' = "odds" THEN "save"
                ELSE "sleep"
    /\ lp_path' = "none"
    /\ UNCHANGED lp_procs
    /\ LoopFrame

\* fetch_and_cache_odds_snapshot, lines 112-116
LoopSave ==
    /\ lp_pc = "save"
    /\ \E outcome \in SaveOutcomes :
          /\ lp_path' = save_market_odds_to_file(outcome)
          /\ lp_seen' = IF outcome = "ok" THEN lp_seen
                        ELSE lp_seen \cup {<<"save", outcome>>}
    /\ lp_pc' = IF lp_path' = "raised" THEN "crashed" ELSE "generate"
    /\ UNCHANGED <<lp_odds, lp_procs>>
    /\ LoopFrame

\* run_unified_snapshot_and_dispatch: the generator is run to its end, its
\* exit code is not looked at, the dispatch scripts are launched
LoopGenerate ==
    /\ lp_pc = "generate"
    /\ \E code \in ExitCodes :
          /\ lp_pc' = IF run_subprocess(code) = "returned"
                      THEN "wait_dispatch" ELSE "crashed"
          /\ lp_procs' = IF run_subprocess(code) = "returned"
                         THEN [lp_procs EXCEPT !["dispatch"] = "running"]
                         ELSE lp_procs
          /\ lp_seen' = IF code = "exit1"
                        THEN lp_seen \cup {<<"generator", "failed">>}
                        ELSE lp_seen
    /\ UNCHANGED <<lp_odds, lp_path>>
    /\ LoopFrame

\* a background process ends
ProcExit ==
    /\ \E n \in ProcNames, code \in ExitCodes :
          /\ lp_procs[n] = "running"
          /\ lp_procs' = [lp_procs EXCEPT ![n] = code]
          /\ lp_seen' = IF code = "exit1"
                        THEN lp_seen \cup {<<n, "failed">>} ELSE lp_seen
    /\ UNCHANGED <<lp_pc, lp_odds, lp_path>>
    /\ LoopFrame

\* wait_for_dispatch_and_snapshot has seen the dispatch scripts end
LoopWaitDispatch ==
    /\ lp_pc = "wait_dispatch"
    /\ lp_procs["dispatch"] # "running"
    /\ lp_procs' = poll_active_processes(lp_procs)
    /\ lp_pc' = "log"
    /\ UNCHANGED <<lp_odds, lp_path, lp_seen>>
    /\ LoopFrame

\* run_logger
LoopRunLogger ==
    /\ lp_pc = "log"
    /\ lp_procs' = [lp_procs EXCEPT !["LogBets"] = "running"]
    /\ lp_pc' = "wait_log"
    /\ UNCHANGED <<lp_odds, lp_path, lp_seen>>
    /\ LoopFrame

\* variant: the loop goes on without waiting for the logger
LoopLeaveLoggers ==
    /\ lp_pc = "wait_log"
    /\ lp_procs' = poll_active_processes(lp_procs)
    /\ lp_pc' = "sleep"
    /\ UNCHANGED <<lp_odds, lp_path, lp_seen>>
    /\ LoopFrame

\* wait_for_loggers has seen the logger end
LoopWaitLoggers ==
    /\ lp_pc = "wait_log"
    /\ lp_procs["LogBets"] # "running"
    /\ lp_procs' = poll_active_processes(lp_procs)
    /\ lp_pc' = "sleep"
    /\ UNCHANGED <<lp_odds, lp_path, lp_seen>>
    /\ LoopFrame

\* time.sleep(10) and the next iteration
LoopSleep ==
    /\ lp_pc = "sleep"
    /\ lp_pc' = "poll"
    /\ UNCHANGED <<lp_odds, lp_path, lp_procs, lp_seen>>
    /\ LoopFrame

NextLoop ==
    \/ LoopPoll
    \/ LoopFetch
    \/ LoopSave
    \/ LoopGenerate
    \/ ProcExit
    \/ LoopWaitDispatch
    \/ LoopRunLogger
    \/ LoopWaitLoggers
    \/ LoopSleep

SpecLoop == InitLoop /\ [][NextLoop]_vars

\* C21: whatever fails in a cycle, the polling loop does not crash: it
\* stays in its while loop and goes on to the next cycle.
C21_LoopNeverCrashes ==
    lp_pc # "crashed"

\* after a request error, a failed generator and a failed logger the loop
\* is at the start of a later cycle
C21_LaterCycleAfterFailures ==
    /\ lp_pc = "fetch"
    /\ {<<"fetch", "request_error">>, <<"generator", "failed">>,
        <<"LogBets", "failed">>} \subseteq lp_seen

\* ------------------------------------------------------------------------
\* core/skip_reasons.py: the enumeration of skip reasons
\* ------------------------------------------------------------------------
\* the values of the members of class SkipReason
SkipReason ==
    {"low_initial", "low_topup", "already_logged", "market_not_moved",
     "no_consensus", "quiet_hours", "no_webhook", "odds_worsened",
     "expired_post_quiet_hours", "skipped"}

\* C22: every skip reason that should_log_bet or
\* evaluate_late_confirmed_bet returns is the value of a member of the
\* SkipReason enumeration.
C22_ReasonsInEnumeration ==
    /\ (Decided /\ ~d_out.log) => d_out.skip_reason \in SkipReason
    /\ (d_pc = "late" /\ d_late.skip_reason # NoVal)
          => d_late.skip_reason \in SkipReason

\* C22 (case reached): a rejection whose reason is a member of the
\* enumeration
C22_EnumeratedReasonReturned ==
    /\ Decided /\ ~d_out.log
    /\ d_out.skip_reason = "low_topup"
    /\ d_out.skip_reason \in SkipReason

\* ------------------------------------------------------------------------
\* should_log_bet and its arguments (core/should_log_bet.py, lines 276-281)
\* ------------------------------------------------------------------------
\* The labels normalize_label_for_odds may return for a side: its code is
\* not part of the sources, so the label is either left as it is or
\* rewritten to the canonical capitalisation.
NormalizedLabels(side) == {side, <<"Over">> \o Tail(side)}

PurityRows ==
    [game_id : {GameId}, market : {MkTotals, MkTotals1st3},
     side : {SideOver, <<"over", "8.5">>},
     raw_kelly : {400, 800}, ev_percent : {60, 130},
     market_odds : {-110, 210}, hours_to_game : {3, 14}, book_count : {3},
     market_prob : ProbInputs]

\* variant: new_bet bound to the caller's dict (new_bet = row)
RowAfterCallAliased(row, new_bet) == new_bet

\* new_bet = row.copy(): every assignment of the body goes to a key of the
\* copy, so the caller's dict is what it was
RowAfterCall(row, new_bet) == row

InitPurity ==
    /\ d_row \in PurityRows
    /\ d_exposure \in DecideExposures(d_row)
    /\ d_prev \in PrevInputs
    /\ d_entry = "first"
    /\ d_out = Reject("pending", 0, 0)
    /\ d_late = NoUpdate
    /\ d_pc = "input"
    /\ SysIdle /\ XIdle

\* one call of should_log_bet seen from the caller: the returned dict
\* ({**new_bet, ...}) carries the normalised side, exposure is only read
\* (exposure.get) and so are the trackers
DecideCall ==
    /\ d_pc = "input"
    /\ \E side \in NormalizedLabels(d_row.side) :
          LET new_bet == [d_row EXCEPT !.side = side] IN
          /\ d_out' = [side |-> new_bet.side]
                          @@ should_log_bet(new_bet, d_exposure, d_prev)
          /\ d_row' = RowAfterCall(d_row, new_bet)
    /\ d_exposure' = d_exposure
    /\ d_prev' = d_prev
    /\ d_pc' = "decided"
    /\ UNCHANGED <<d_entry, d_late, svars, xvars>>

NextPurity == DecideCall

SpecPurity == InitPurity /\ [][NextPurity]_vars

RowHours == {NoNum, 3, 7, 14}

RowCandidates ==
    [game_id : {GameId},
     market : {MkTotals, MkH2h, MkTotals1st3, MkTeamTotals},
     side : {SideOver}, raw_kelly : {400}, ev_percent : {90, 130},
     market_odds : {-110}, hours_to_game : RowHours, book_count : BookInputs,
     market_prob : ProbInputs]

\* the tracker entry of the key: none on the first observation, otherwise
\* the anchor and the consensus of the previous poll
NoEntry == [present |-> FALSE, baseline |-> NoNum, market_prob |-> NoNum]

TrackerEntries ==
    {NoEntry}
    \cup {[present |-> TRUE, baseline |-> b, market_prob |-> p] :
            b \in {440, 466}, p \in {440, 466, 470}}

\* float(row.get("hours_to_game", 0)), 0.0 when the value does not convert
HoursOrZero(hours) == IF hours = NoNum THEN 0 ELSE hours

\* one hundred-thousandth (0.00001) in units of 1/MoveDen
MoveDenPerPip == MoveDen \div 100000

\* one mil in hundred-thousandths
PipsPerMil == 100

\* round(x, 5) of a required move given as a numerator over MoveDen:
\* the result in hundred-thousandths
Round5(num) == RoundHalfEven(num, MoveDenPerPip)

\* mkt_movement of _enrich_snapshot_row: the direction of the consensus
\* against the baseline
MktMovement(curr, baseline) ==
    IF baseline = NoNum \/ curr = NoNum THEN "same"
    ELSE IF curr - baseline = 0 THEN "same"
    ELSE IF curr - baseline > 0 THEN "up"
    ELSE "down"

\* the confirmation metrics _enrich_snapshot_row stores on a fresh row:
\* consensus_move in mils, required_move in hundred-thousandths
enrich_snapshot_row(row, baseline) ==
    LET consensus_move ==
            IF baseline = NoNum \/ row.market_prob = NoNum THEN 0
            ELSE row.market_prob - baseline
        required_move ==
            Round5(required_market_move(HoursOrZero(row.hours_to_game),
                                        row.book_count, row.market,
                                        row.ev_percent))
    IN  [baseline |-> baseline,
         mkt_movement |-> MktMovement(row.market_prob, baseline),
         consensus_move |-> consensus_move,
         required_move |-> required_move,
         movement_confirmed |-> consensus_move * PipsPerMil >= required_move]

InitRow ==
    /\ en_pc = "input"
    /\ en_prior \in TrackerEntries
    /\ en_row \in RowCandidates
    /\ en_snap = <<>>
    /\ en_out = <<>>
    /\ SysIdle /\ DecideIdle
    /\ FilesIdle /\ MergeIdle /\ ReconcileIdle /\ CallIdle /\ LoopIdle

RowFrame == UNCHANGED <<dvars, svars, fvars, mgvars, rcvars, clvars, lpvars>>

\* build_snapshot_for_date for the row: the baseline is taken from the prior
\* row or the tracker, else from the current consensus; then the row is
\* enriched
RowBuild ==
    /\ en_pc = "input"
    /\ en_snap' =
          enrich_snapshot_row(
              en_row,
              AssignBaseline(en_prior.baseline, en_prior.baseline,
                             en_row.market_prob))
    /\ en_pc' = "built"
    /\ UNCHANGED <<en_prior, en_row, en_out>>
    /\ RowFrame

\* the batch logger evaluates the stored row with the tracker entry of the
\* previous poll and no exposure on the theme
RowDecide ==
    /\ en_pc = "built"
    /\ en_out' = should_log_bet(en_row, NoExposure, en_prior.market_prob)
    /\ en_pc' = "decided"
    /\ UNCHANGED <<en_prior, en_row, en_snap>>
    /\ RowFrame

NextRow ==
    \/ RowBuild
    \/ RowDecide

SpecRow == InitRow /\ [][NextRow]_vars

\* the decision went as far as the confirmation threshold
RowThresholdComputed ==
    /\ en_pc = "decided"
    /\ en_out.skip_reason \notin {"bad_odds", "low_ev"}

\* C24: the required move the generator stores on the snapshot row is the
\* value should_log_bet computes for the same hours_to_game, book_count,
\* market and ev_percent.
C24_RequiredMoveParity ==
    RowThresholdComputed
        => en_snap.required_move * MoveDenPerPip = en_out.required_movement

\* C24 (case reached): a row on which the stored and the computed required
\* move are the same number
C24_RequiredMoveAgrees ==
    /\ RowThresholdComputed
    /\ en_row.hours_to_game = 14
    /\ en_snap.required_move * MoveDenPerPip = en_out.required_movement

\* ------------------------------------------------------------------------
\* required_market_move on its own (core/confirmation_utils.py, lines 38-122)
\* ------------------------------------------------------------------------
MoveMarkets ==
    {MkTotals, MkSpreads, MkH2h, MkTeamTotals, MkTotals1st5, MkH2h1st5,
     MkTotals1st3, MkTotals1st7}

\* arguments around every boundary of the formula: 6 hours, 3 books, EV of
\* 5, 7, 10, 12 and 20 percent
MoveArguments ==
    [hours_to_game : {0, 3, 6, 7, 14, 30}, book_count : {1, 2, 3, 4},
     market : MoveMarkets,
     ev_percent : {45, 50, 60, 70, 75, 99, 100, 119, 120, 150, 200, 205}]

InitMove ==
    /\ en_pc = "arguments"
    /\ en_row \in MoveArguments
    /\ en_prior = <<>>
    /\ en_snap = <<>>
    /\ en_out = 0
    /\ SysIdle /\ DecideIdle
    /\ FilesIdle /\ MergeIdle /\ ReconcileIdle /\ CallIdle /\ LoopIdle

\* one call of required_market_move; the result is kept as the numerator
\* over MoveDen
MoveCall ==
    /\ en_pc = "arguments"
    /\ en_out' = required_market_move(en_row.hours_to_game, en_row.book_count,
                                      en_row.market, en_row.ev_percent)
    /\ en_pc' = "returned"
    /\ UNCHANGED <<en_prior, en_row, en_snap>>
    /\ RowFrame

NextMove == MoveCall

SpecMove == InitMove /\ [][NextMove]_vars

\* the factors of the formula as stated, each as a numerator: time over 24,
\* books over 10, EV adjustment over 20
StatedTime(hours) == 24 + (IF hours - 6 > 0 THEN hours - 6 ELSE 0)
StatedBooks(book_count) == 10 + 3 * (IF 3 - book_count > 0 THEN 3 - book_count ELSE 0)
StatedEvAdjustment(ev) ==
    IF ev >= 120 THEN 16
    ELSE IF ev >= 50 /\ ev <= 70 THEN 25
    ELSE 20

\* the segment adjustments of the formula, in eighths
SegmentEighths == {2, 3, 4, 6, 8, 12}

\* the segment adjustment, in eighths, that the returned value contains
ReturnedSegmentEighths ==
    CHOOSE s \in 0..16 :
        \/ en_out = 45 * StatedTime(en_row.hours_to_game)
                       * StatedBooks(en_row.book_count) * s
                       * StatedEvAdjustment(en_row.ev_percent)
        \/ /\ s = 0
           /\ \A t \in 1..16 :
                 en_out # 45 * StatedTime(en_row.hours_to_game)
                             * StatedBooks(en_row.book_count) * t
                             * StatedEvAdjustment(en_row.ev_percent)

\* C25: required_market_move returns
\* 0.0045 * (1 + max((hours - 6)/24, 0)) * (1 + 0.3 * max(3 - books, 0))
\* * segment_adjustment * ev_adjustment, with ev_adjustment 0.8 for
\* EV >= 12%, 1.25 for EV within 5-7% and 1 otherwise.
C25_RequiredMoveFormula ==
    en_pc = "returned" =>
        \E s \in SegmentEighths :
            en_out = 45 * StatedTime(en_row.hours_to_game)
                        * StatedBooks(en_row.book_count) * s
                        * StatedEvAdjustment(en_row.ev_percent)

\* C25 (case reached): 14 hours, one book, full-game totals at EV 7%:
\* 0.0045 * (1 + 8/24) * 1.6 * 0.5 * 1.25 = 0.006
C25_ThinEarlyTotals ==
    /\ en_pc = "returned"
    /\ en_row = [hours_to_game |-> 14, book_count |-> 1, market |-> MkTotals,
                 ev_percent |-> 70]
    /\ en_out = 6 * MilsPerMoveDen

\* the segment adjustment as stated, in eighths: 0.25 or 0.50 for full-game
\* totals, spreads and moneylines, 1.5 for first-3-innings, first-7-innings
\* and team-total markets, 1 for the rest
StatedSegmentEighths(m, ev) ==
    IF normalize_segment(m) \in {"1st_3", "1st_7"}
       \/ EvCategory(m) = "team_totals"
    THEN 12
    ELSE IF /\ normalize_segment(m) = "full_game"
            /\ normalize_market_key(m) \in {"total", "spread", "h2h"}
    THEN (IF ev >= 100 /\ ev <= 200 THEN 2 ELSE 4)
    ELSE 8

\* C26: the segment adjustment contained in the required move is 0.25 for
\* full-game totals, spreads and moneylines when EV is within 10-20%, 0.50
\* for those markets otherwise, and 1.5 for first-3-innings,
\* first-7-innings and team-total markets.
C26_SegmentAdjustment ==
    en_pc = "returned" =>
        ReturnedSegmentEighths
            = StatedSegmentEighths(en_row.market, en_row.ev_percent)

\* C26 (case reached): full-game totals at EV 15% are discounted to 0.25
C26_TotalsInSweetBand ==
    /\ en_pc = "returned"
    /\ en_row.market = MkTotals /\ en_row.ev_percent = 150
    /\ ReturnedSegmentEighths = 2

\* C27: the movement that is stored on the row and the movement that
\* should_log_bet reports and compares with the required move are both the
\* current consensus probability minus the baseline of the key.
C27_MovementFromBaseline ==
    /\ en_pc \in {"built", "decided"}
          => en_snap.consensus_move = en_row.market_prob - en_snap.baseline
    /\ RowThresholdComputed
          => en_out.movement = en_row.market_prob - en_snap.baseline

\* C27 (case reached): a key seen before whose decision reports the move
\* from the baseline
C27_MovedFromBaseline ==
    /\ RowThresholdComputed
    /\ en_prior.present
    /\ en_out.movement = en_row.market_prob - en_snap.baseline
    /\ en_out.movement > 0

LowLiquidity(m) ==
    \/ normalize_segment(m) \in {"1st_3", "1st_7"}
    \/ EvCategory(m) = "team_totals"

\* C29: a candidate of a low-liquidity segment with more than 12 hours to
\* game start is never accepted, and where no earlier gate rejects it the
\* reason is time_blocked.
C29_EarlyLowLiquidityBlocked ==
    (/\ Decided
     /\ LowLiquidity(d_row.market)
     /\ d_row.hours_to_game # NoNum /\ d_row.hours_to_game > 12) =>
        /\ ~d_out.log
        /\ (~OddsOutOfRange /\ ~EvBelowThreshold /\ ~MoveUnconfirmed)
              => d_out.skip_reason = "time_blocked"

\* C29 (case reached): a first-3-innings candidate 14 hours before the
\* start is rejected time_blocked
C29_EarlyFirstThreeBlocked ==
    /\ Decided
    /\ d_row.market = MkTotals1st3 /\ d_row.hours_to_game = 14
    /\ ~d_out.log /\ d_out.skip_reason = "time_blocked"

\* the stored row's own metrics say the move is confirmed
RowMoveConfirmed ==
    en_snap.consensus_move * PipsPerMil >= en_snap.required_move

\* C30: for a candidate with zero theme exposure that passes the odds and
\* EV gates, should_log_bet decides from the row's own consensus_move and
\* required_move: it skips for insufficient movement when consensus_move is
\* below required_move, and logs the bet as first otherwise (candidates the
\* time gate blocks set aside).
C30_DecidesFromRowMetrics ==
    (/\ en_pc = "decided"
     /\ en_out.skip_reason \notin {"bad_odds", "low_ev"}) =>
        IF ~RowMoveConfirmed
        THEN /\ ~en_out.log
             /\ en_out.skip_reason \in {"market_not_moved", "not_confirmed"}
        ELSE TimeBlockedGate(en_row)
             \/ (en_out.log /\ en_out.entry_type = "first")

\* C30 (case reached): a row whose own metrics confirm the move is logged
\* as a first bet
C30_ConfirmedRowLogged ==
    /\ en_pc = "decided"
    /\ en_prior.present
    /\ RowMoveConfirmed
    /\ en_out.log /\ en_out.entry_type = "first"

\* ------------------------------------------------------------------------
\* The direction of a movement against the baseline, probabilities in
\* millionths: _enrich_snapshot_row (lines 137-153),
\* detect_baseline_movement and detect_market_movement
\* ------------------------------------------------------------------------
Abs(n) == IF n < 0 THEN 0 - n ELSE n

DirectionOf(diff) == IF diff > 0 THEN "up" ELSE "down"

\* mkt_movement of _enrich_snapshot_row: same below 1e-6
enrich_mkt_movement(curr, baseline) ==
    IF Abs(curr - baseline) < 1 THEN "same"
    ELSE DirectionOf(curr - baseline)

detect_baseline_movement(curr, baseline) ==
    IF curr > baseline THEN "up"
    ELSE IF curr < baseline THEN "down"
    ELSE "same"

\* threshold of detect_market_movement for market_prob: 0.01 when
\* hours_to_game is missing, market_prob_increase_threshold otherwise
MissingHoursThreshold == 10000

\* market_prob_increase_threshold comes from core/constants.py, which is not
\* among the sources: the values it may have
IncreaseThresholds == {1, 100, 5000}

detect_market_movement(curr, baseline, threshold) ==
    IF Abs(curr - baseline) < threshold THEN "same"
    ELSE DirectionOf(curr - baseline)

DirectionBaseline == 450000

DirectionArguments ==
    [curr : {DirectionBaseline + d :
                d \in {0 - 20000, 0 - 5000, 0 - 150, 0 - 50, 0 - 1, 0, 1, 50,
                       150, 5000, 20000}},
     baseline : {DirectionBaseline},
     hours_to_game : {NoNum, 3, 14}]

InitDirection ==
    /\ en_pc = "arguments"
    /\ en_row \in DirectionArguments
    /\ en_prior = <<>>
    /\ en_snap = <<>>
    /\ en_out = <<>>
    /\ SysIdle /\ DecideIdle
    /\ FilesIdle /\ MergeIdle /\ ReconcileIdle /\ CallIdle /\ LoopIdle

DirEnrich ==
    /\ en_pc = "arguments"
    /\ en_out' = [by |-> "enrich",
                  direction |-> enrich_mkt_movement(en_row.curr,
                                                    en_row.baseline)]
    /\ en_pc' = "returned"
    /\ UNCHANGED <<en_prior, en_row, en_snap>>
    /\ RowFrame

DirBaseline ==
    /\ en_pc = "arguments"
    /\ en_out' = [by |-> "baseline",
                  direction |-> detect_baseline_movement(en_row.curr,
                                                         en_row.baseline)]
    /\ en_pc' = "returned"
    /\ UNCHANGED <<en_prior, en_row, en_snap>>
    /\ RowFrame

DirDetect ==
    /\ en_pc = "arguments"
    /\ \E threshold \in (IF en_row.hours_to_game = NoNum
                         THEN {MissingHoursThreshold}
                         ELSE IncreaseThresholds) :
          /\ en_snap' = threshold
          /\ en_out' = [by |-> "detect",
                        direction |-> detect_market_movement(
                            en_row.curr, en_row.baseline, threshold)]
    /\ en_pc' = "returned"
    /\ UNCHANGED <<en_prior, en_row>>
    /\ RowFrame

NextDirection ==
    \/ DirEnrich
    \/ DirBaseline
    \/ DirDetect

SpecDirection == InitDirection /\ [][NextDirection]_vars

\* C31: the direction is "same" whenever |consensus_prob - baseline| is
\* below the epsilon of about 1e-4 (100 millionths), "up" when the
\* difference is above it and "down" when it is below its negative.
C31_DeadZone ==
    en_pc = "returned" =>
        LET diff == en_row.curr - en_row.baseline IN
        /\ Abs(diff) < 100 => en_out.direction = "same"
        /\ diff > 100 => en_out.direction = "up"
        /\ diff < 0 - 100 => en_out.direction = "down"

\* C31 (case reached): a rise of 0.00015 is reported as up by the row
\* enrichment
C31_SmallRiseReported ==
    /\ en_pc = "returned"
    /\ en_out.by = "enrich"
    /\ en_row.curr - en_row.baseline = 150
    /\ en_out.direction = "up"

\* ------------------------------------------------------------------------
\* A series of snapshots of one MarketKey: the generator builds, enriches and
\* merges one row per quoting book, the loggers mark rows of the latest
\* snapshot
\* ------------------------------------------------------------------------
LatchBooks == {"b1", "b2"}
LatchOrder == <<"b1", "b2">>

\* writes of the snapshot in a run of the model
MaxSnapshots == 4

\* the candidate of the key at a poll: Over of the full-game totals, three
\* hours before the game, EV 9.0%
LatchCandidate(prob) ==
    [game_id |-> GameId, market |-> SysMarket, side |-> SysSide,
     raw_kelly |-> 400, ev_percent |-> 90, market_odds |-> -110,
     hours_to_game |-> 3, book_count |-> 1, market_prob |-> prob]

NoLatchRow ==
    [present |-> FALSE, baseline |-> NoNum, market_prob |-> NoNum,
     queued |-> FALSE, logged |-> FALSE, logged_ts |-> NoNum,
     skip_reason |-> NoVal, consensus_move |-> 0, required_move |-> 0,
     movement_confirmed |-> FALSE]

\* load_snapshot_tracker on the prior snapshot: the baseline of the last row
\* of the key, whatever its book
LatchTrackerBaseline(rows) ==
    LET present == {i \in 1..Len(LatchOrder) : rows[LatchOrder[i]].present} IN
    IF present = {} THEN NoNum
    ELSE rows[LatchOrder[CHOOSE i \in present :
                            \A j \in present : j <= i]].baseline

\* _merge_persistent_fields for movement_confirmed: the prior value is taken
\* when the fresh one is False
merge_movement_confirmed(row, prior) ==
    IF prior.present /\ row.movement_confirmed = FALSE
    THEN [row EXCEPT !.movement_confirmed = prior.movement_confirmed]
    ELSE row

\* the row of one book in the new snapshot: build_snapshot_rows (no logged
\* flag in the simulation entry, no logged_ts), the baseline of
\* build_snapshot_for_date, _enrich_snapshot_row, then the merge with the
\* prior row of the same (MarketKey, book)
LatchBuild(prior, fallback, prob) ==
    LET baseline ==
            AssignBaseline(IF prior.present THEN prior.baseline ELSE NoNum,
                           fallback, prob)
        metrics == enrich_snapshot_row(LatchCandidate(prob), baseline)
        fresh ==
            [present |-> TRUE, baseline |-> baseline, market_prob |-> prob,
             queued |-> FALSE, logged |-> FALSE, logged_ts |-> NoNum,
             skip_reason |-> NoVal,
             consensus_move |-> metrics.consensus_move,
             required_move |-> metrics.required_move,
             movement_confirmed |-> metrics.movement_confirmed]
    IN  merge_movement_confirmed(MergeDurable(fresh, prior), prior)

\* some row of the key is in the snapshot / is shown as logged
LatchPresent(rows) == \E b \in LatchBooks : rows[b].present
LatchLogged(rows) == \E b \in LatchBooks : rows[b].present /\ rows[b].logged

\* en_snap the latest snapshot, by book; en_row the quote of the last poll;
\* en_out the clock and whether a snapshot has shown the key as logged
InitLatch ==
    /\ en_pc = "series"
    /\ en_prior = <<>>
    /\ en_row = <<>>
    /\ en_snap = [b \in LatchBooks |-> NoLatchRow]
    /\ en_out = [clock |-> 1, shown_logged |-> FALSE]
    /\ SysIdle /\ DecideIdle
    /\ FilesIdle /\ MergeIdle /\ ReconcileIdle /\ CallIdle /\ LoopIdle

LatchWritten(rows) ==
    en_out' = [clock |-> en_out.clock + 1,
               shown_logged |-> en_out.shown_logged \/ LatchLogged(rows)]

\* unified_snapshot_generator.main: the prior snapshot is loaded, a row is
\* built for every book that quotes the market and the new snapshot replaces
\* the old one.  With no quote the new snapshot holds the rows of other
\* markets only.
LatchPoll ==
    /\ en_pc = "series"
    /\ en_out.clock <= MaxSnapshots
    /\ \E quoted \in SUBSET LatchBooks, prob \in Probs :
          /\ en_row' = [quoted |-> quoted, market_prob |-> prob]
          /\ en_snap' =
                [b \in LatchBooks |->
                    IF b \in quoted
                    THEN LatchBuild(en_snap[b], LatchTrackerBaseline(en_snap),
                                    prob)
                    ELSE NoLatchRow]
    /\ LatchWritten(en_snap')
    /\ UNCHANGED <<en_pc, en_prior>>
    /\ RowFrame

\* a logger's pass over the row of a book (recheck_pending_bets 58-101,
\* run_batch_logging 2580-2585): an accepted row is marked logged with the
\* time of the pass, a rejected one is queued with its skip reason
LatchLog(b) ==
    /\ en_pc = "series"
    /\ en_out.clock <= MaxSnapshots
    /\ en_snap[b].present
    /\ ~en_snap[b].logged
    /\ \E prev \in TrackerPrevs :
          LET evaluation ==
                  should_log_bet(LatchCandidate(en_snap[b].market_prob),
                                 NoExposure, prev)
          IN  en_snap' =
                [en_snap EXCEPT ![b] =
                    IF Accepted(evaluation)
                    THEN [@ EXCEPT !.logged = TRUE, !.queued = FALSE,
                                   !.logged_ts = en_out.clock]
                    ELSE [@ EXCEPT !.queued = TRUE,
                                   !.skip_reason = evaluation.skip_reason]]
    /\ LatchWritten(en_snap')
    /\ UNCHANGED <<en_pc, en_prior, en_row>>
    /\ RowFrame

NextLatch ==
    \/ LatchPoll
    \/ \E b \in LatchBooks : LatchLog(b)

SpecLatch == InitLatch /\ [][NextLatch]_vars

\* C32: in every snapshot written, every row whose logged flag is true
\* also carries a non-empty logged_ts.
C32_LoggedRowsStamped ==
    en_pc = "series" =>
        \A b \in LatchBooks :
            (en_snap[b].present /\ en_snap[b].logged)
                => en_snap[b].logged_ts # NoNum

\* C32 (case reached): a row logged in an earlier snapshot was rebuilt by a
\* later poll and carries the flag and the timestamp of the logging
C32_StampCarriedByMerge ==
    /\ en_pc = "series"
    /\ \E b \in LatchBooks :
          /\ en_snap[b].present /\ en_snap[b].logged
          /\ en_snap[b].logged_ts # NoNum
          /\ en_snap[b].logged_ts + 1 < en_out.clock

\* ------------------------------------------------------------------------
\* The theme key a stake is recorded under and the theme key the next
\* evaluation reads
\* ------------------------------------------------------------------------
\* core.utils is not part of the sources; the maps hold the team that the
\* comments of remap_side_key name: 'PIT' and 'Pittsburgh Pirates'
TEAM_ABBR_TO_NAME == [abbr \in {"PIT"} |-> <<"Pittsburgh", "Pirates">>]
TEAM_NAME_TO_ABBR == [name \in {<<"Pittsburgh", "Pirates">>} |-> "PIT"]

\* sides as token sequences: totals, a moneyline by abbreviation and by
\* name, a spread, a team total
ThemeSides ==
    {SideOver, SideUnder, <<"PIT">>, <<"Pittsburgh", "Pirates">>,
     <<"PIT", "-1.5">>, <<"PIT", "Over", "4.5">>}

\* the stake of the logged bet
ThemeStake == MIN_FIRST_STAKE

\* get_theme of core/should_log_bet.py; a theme is a token sequence
get_theme_bet(m, side) ==
    LET market == StripAlternate(m)
        direction == IF ContainsTok(side, "Over") THEN <<"Over">>
                     ELSE IF ContainsTok(side, "Under") THEN <<"Under">>
                     ELSE <<>>
    IN  IF ContainsPair(market, "team", "totals") /\ direction # <<>>
        THEN direction
        ELSE IF side[1] = "Over" THEN <<"Over">>
        ELSE IF side[1] = "Under" THEN <<"Under">>
        ELSE IF \/ ContainsTok(market, "h2h")
                \/ ContainsTok(market, "spreads")
                \/ ContainsTok(market, "runline")
        THEN IF side[1] \in DOMAIN TEAM_ABBR_TO_NAME THEN <<side[1]>>
             ELSE IF \E name \in DOMAIN TEAM_NAME_TO_ABBR :
                        StartsWith(side, name)
             THEN CHOOSE name \in DOMAIN TEAM_NAME_TO_ABBR :
                        StartsWith(side, name)
             ELSE <<"Other">>
        ELSE <<"Other">>

\* remap_side_key of core/exposure_utils.py: an abbreviation at the start of
\* the side is expanded to the team's name
remap_side_key(side) ==
    IF side \in DOMAIN TEAM_NAME_TO_ABBR THEN side
    ELSE IF side[1] \in DOMAIN TEAM_ABBR_TO_NAME
    THEN TEAM_ABBR_TO_NAME[side[1]] \o Tail(side)
    ELSE side

\* the theme of get_exposure_key: the team whose name starts the remapped
\* side, else Over, Under or Other
exposure_theme(side) ==
    LET remapped == remap_side_key(side) IN
    IF \E team \in DOMAIN TEAM_NAME_TO_ABBR : StartsWith(remapped, team)
    THEN CHOOSE team \in DOMAIN TEAM_NAME_TO_ABBR : StartsWith(remapped, team)
    ELSE IF ContainsTok(remapped, "Over") THEN <<"Over">>
    ELSE IF ContainsTok(remapped, "Under") THEN <<"Under">>
    ELSE <<"Other">>

\* exposure_key of should_log_bet (lines 359-362)
ThemeKeyRead(game_id, m, side) ==
    make_theme_key(game_id,
                   get_theme_key(StripAlternate(m), get_theme_bet(m, side)),
                   normalize_segment(m))

\* theme_key of record_successful_log: get_exposure_key(row)
ThemeKeyRecorded(game_id, m, side) ==
    LET mt == normalize_market_key(m)
        market_type == IF mt \in {"total", "spread", "h2h"} THEN mt ELSE "other"
    IN  make_theme_key(game_id, <<exposure_theme(side), market_type>>,
                       normalize_segment(m))

\* en_row the bet, en_snap the exposure map of the process, en_out the
\* theme total the next evaluation reads
InitTheme ==
    /\ en_pc = "logged"
    /\ en_row \in [game_id : {GameId}, market : Markets, side : ThemeSides]
    /\ en_prior = <<>>
    /\ en_snap = NoExposure
    /\ en_out = 0
    /\ SysIdle /\ DecideIdle
    /\ FilesIdle /\ MergeIdle /\ ReconcileIdle /\ CallIdle /\ LoopIdle

\* record_successful_log after the ledger write of the bet
ThemeRecord ==
    /\ en_pc = "logged"
    /\ en_snap' =
          [k \in {ThemeKeyRecorded(en_row.game_id, en_row.market, en_row.side)}
              |-> ThemeStake]
    /\ en_pc' = "recorded"
    /\ UNCHANGED <<en_prior, en_row, en_out>>
    /\ RowFrame

\* the next evaluation of the bet: theme_total = exposure.get(exposure_key, 0.0)
ThemeEvaluate ==
    /\ en_pc = "recorded"
    /\ en_out' =
          ExposureGet(en_snap,
              ThemeKeyRead(en_row.game_id, en_row.market, en_row.side))
    /\ en_pc' = "evaluated"
    /\ UNCHANGED <<en_prior, en_row, en_snap>>
    /\ RowFrame

NextTheme ==
    \/ ThemeRecord
    \/ ThemeEvaluate

SpecTheme == InitTheme /\ [][NextTheme]_vars

\* C33: for any bet the key under which record_successful_log adds the
\* logged stake is the key should_log_bet reads, so the next evaluation of
\* the bet sees the logged stake as its theme total.
C33_RecordedKeyIsReadKey ==
    /\ en_pc \in {"recorded", "evaluated"} =>
          ThemeKeyRecorded(en_row.game_id, en_row.market, en_row.side)
            = ThemeKeyRead(en_row.game_id, en_row.market, en_row.side)
    /\ en_pc = "evaluated" => en_out = ThemeStake

\* C33 (case reached): the stake of a moneyline bet on PIT was recorded
\* under the team's name and the next evaluation read the abbreviation's
\* key and found no exposure
C33_MoneylineStakeUnseen ==
    /\ en_pc = "evaluated"
    /\ en_row.market = MkH2h
    /\ en_row.side = <<"PIT">>
    /\ DOMAIN en_snap = {<<GameId, <<<<"Pittsburgh", "Pirates">>, "h2h">>, "">>}
    /\ en_out = 0

\* ------------------------------------------------------------------------
\* Write-backs of the snapshot by the loggers
\* ------------------------------------------------------------------------
\* C34: no update of the snapshot is lost: a logged flag committed by one
\* process is never overwritten by another process that writes back a copy
\* of the rows it read before that commit.
C34_NoLostUpdate ==
    [][(m_pc = "run" /\ m_pc' = "idle") =>
         \A rk \in RowKeys :
            (snapshot[rk].present /\ snapshot[rk].logged)
                => snapshot'[rk].logged]_vars

\* C34 (case reached): the batch logger has committed the logged flag of a
\* row while the monitor holds a changed copy of the rows, read before the
\* commit, in which the row is not logged
C34_StaleCopyHeld ==
    /\ m_pc = "run"
    /\ m_idx > Len(RowOrder)
    /\ m_changed
    /\ \E rk \in RowKeys :
          /\ snapshot[rk].present /\ snapshot[rk].logged
          /\ m_rows[rk].present /\ ~m_rows[rk].logged

\* C35: the logged flag latches per MarketKey: once a snapshot has shown the
\* key as logged, every later snapshot before the game that contains the
\* key shows it as logged, also when the key was missing from a snapshot in
\* between or another book quotes it.
C35_LoggedLatches ==
    (en_pc = "series" /\ en_out.shown_logged /\ LatchPresent(en_snap))
        => LatchLogged(en_snap)

\* C35 (case reached): the key was logged on the row of book b1; the next
\* poll found the market quoted by b2 only and the new snapshot shows the
\* key as not logged
C35_LoggedThenOtherBook ==
    /\ en_pc = "series"
    /\ en_out.shown_logged
    /\ en_row.quoted = {"b2"}
    /\ en_snap["b2"].present
    /\ ~en_snap["b2"].logged
    /\ ~en_snap["b1"].present

\* C36: in every row of a written snapshot movement_confirmed is true
\* exactly when the row's consensus_move is at least its required_move.
C36_ConfirmedIffMoved ==
    en_pc = "series" =>
        \A b \in LatchBooks :
            en_snap[b].present =>
                (en_snap[b].movement_confirmed
                    <=> en_snap[b].consensus_move * PipsPerMil
                            >= en_snap[b].required_move)

\* C36 (case reached): the consensus rose by 0.020 over the baseline, the
\* row was written as confirmed, and after the consensus fell back to the
\* baseline the row of the next snapshot is still marked confirmed
C36_ConfirmedAfterFallBack ==
    /\ en_pc = "series"
    /\ \E b \in LatchBooks :
          /\ en_snap[b].present
          /\ en_snap[b].movement_confirmed
          /\ en_snap[b].consensus_move = 0
          /\ en_snap[b].required_move > 0

\* ------------------------------------------------------------------------
\* Progress of the polling loop
\* ------------------------------------------------------------------------
\* The loop of cli/auto_sim_and_log_loop.py runs the generator and then the
\* batch logger in every cycle (lines 150-160), so both keep being taken
\* while they can; the monitor and the pending-bet scripts are started by
\* hand and may never run.
SpecLoggerProgress ==
    /\ Init
    /\ [][Next]_vars
    /\ WF_vars(GenPoll)
    /\ WF_vars(BatchRun)

\* the row is in the snapshot before the game and should_log_bet accepts
\* it with the exposure of the ledger, whatever the tracker lookup gives
PassesEveryGate(rk) ==
    /\ snapshot[rk].present
    /\ now < StartTime
    /\ \A prev \in {NoNum, snapshot[rk].market_prob} :
          Accepted(should_log_bet(RowInput(snapshot[rk]),
                                  build_theme_exposure_tracker(csv), prev))

\* C37: a candidate that keeps passing every gate in successive snapshots
\* is eventually logged by the batch logger of the polling loop before the
\* game starts, whether or not another process has queued its row.
C37_PassingCandidateLogged ==
    \A rk \in RowKeys :
        (PassesEveryGate(rk) /\ ~snapshot[rk].logged)
            ~> (snapshot[rk].logged \/ ~PassesEveryGate(rk))

\* C37 (case reached): the batch logger has run over a snapshot whose row
\* passes every gate and is not queued, and has left the row unlogged
C37_BatchPassedOverRow ==
    /\ op = "batch"
    /\ \E rk \in RowKeys :
          /\ PassesEveryGate(rk)
          /\ ~snapshot[rk].queued
          /\ ~snapshot[rk].logged

\* ------------------------------------------------------------------------
\* Order of the processes of a poll cycle
\* ------------------------------------------------------------------------
Running(n) == lp_procs[n] = "running"

\* C38: in every poll cycle the generator has finished before a dispatcher
\* or a logger starts, the loggers start only after every dispatcher has
\* exited, and the generation of the next cycle starts only after every
\* logger has exited; the generator and the batch logger that the loop
\* launches never work on the snapshot at the same time.  The generator runs
\* inside the step that leaves "generate".
C38_CycleOrder ==
    /\ lp_pc = "generate" => \A n \in ProcNames : ~Running(n)
    /\ Running("dispatch") => (lp_pc = "wait_dispatch" /\ ~Running("LogBets"))
    /\ Running("LogBets") => (lp_pc = "wait_log" /\ ~Running("dispatch"))

\* C38 (case reached): the generation of a later cycle is about to start
\* after a dispatcher and a logger of an earlier cycle have run and exited
C38_NextGenerationAfterLoggers ==
    /\ lp_pc = "generate"
    /\ {<<"dispatch", "failed">>, <<"LogBets", "failed">>} \subseteq lp_seen
    /\ \A n \in ProcNames : ~Running(n)

\* ------------------------------------------------------------------------
\* run_batch_logging with the --dry-run option
\* ------------------------------------------------------------------------
\* en_pc holds the option the logger was started with
DryRunOptions == {"dry_run", "live"}

InitDryRun ==
    /\ SysIdle /\ DecideIdle
    /\ FilesIdle /\ MergeIdle /\ ReconcileIdle /\ CallIdle /\ LoopIdle
    /\ en_pc \in DryRunOptions
    /\ en_prior = <<>> /\ en_row = <<>> /\ en_snap = <<>> /\ en_out = <<>>

\* run_batch_logging(dry_run=...): the option is tested before
\* save_skipped_bets only (line 2614).  evaluate_snapshot_row_for_logging
\* calls write_to_csv without it, so that dry_run is False there, and the
\* write-back of the snapshot (lines 2617-2625) does not test it.
BatchRunOption ==
    /\ en_pc \in DryRunOptions
    /\ BatchRun

NextDryRun ==
    \/ Tick
    \/ GenPoll
    \/ MonLoad \/ MonStep \/ MonSave
    \/ BatchRunOption

SpecDryRun == InitDryRun /\ [][NextDryRun]_vars

\* C39: a run of the batch logger with dry_run=True appends no row to the
\* ledger, changes no exposure or existing-stake value and does not rewrite
\* the snapshot.
C39_DryRunChangesNothing ==
    [][(en_pc = "dry_run" /\ op' = "batch") =>
          /\ csv' = csv
          /\ snapshot' = snapshot
          /\ b_exposure' = build_theme_exposure_tracker(csv)]_vars

\* C39 (case reached): a dry run has appended a row to the ledger, added its
\* stake to the exposure of the theme and marked the snapshot row logged
C39_DryRunLogged ==
    /\ en_pc = "dry_run"
    /\ op = "batch"
    /\ Len(csv) >= 1
    /\ \E rk \in RowKeys : snapshot[rk].present /\ snapshot[rk].logged
    /\ b_exposure # build_theme_exposure_tracker(<<>>)

\* ------------------------------------------------------------------------
\* cumulative_stake of the ledger rows
\* ------------------------------------------------------------------------
\* rows of logs/market_evals.csv in a run of the model
MaxLedger == 3

\* the sides of one market of one game, and the stakes of the entries
LedgerSides == {SideOver, SideUnder}
LedgerStakes == {MIN_TOPUP_STAKE, MIN_FIRST_STAKE}

RECURSIVE StakeSum(_, _)
StakeSum(rows, side) ==
    IF rows = <<>> THEN 0
    ELSE (IF Head(rows).side = side THEN Head(rows).stake ELSE 0)
         + StakeSum(Tail(rows), side)

\* load_existing_stakes: the stake column summed by (game_id, market, side)
load_existing_stakes(ledger) ==
    [side \in LedgerSides |-> StakeSum(ledger, side)]

\* en_snap the ledger, en_prior the existing-stakes map of each logging
\* process, loaded when the process starts
InitLedger ==
    /\ en_pc = "ledger"
    /\ en_snap = <<>>
    /\ en_prior = [l \in Loggers |->
                     [loaded |-> FALSE, existing |-> load_existing_stakes(<<>>)]]
    /\ en_row = <<>>
    /\ en_out = <<>>
    /\ SysIdle /\ DecideIdle
    /\ FilesIdle /\ MergeIdle /\ ReconcileIdle /\ CallIdle /\ LoopIdle

\* a logging process starts: existing = load_existing_stakes(path)
LedgerLoad(l) ==
    /\ en_pc = "ledger"
    /\ ~en_prior[l].loaded
    /\ en_prior' = [en_prior EXCEPT ![l] =
                      [loaded |-> TRUE,
                       existing |-> load_existing_stakes(en_snap)]]
    /\ UNCHANGED <<en_pc, en_row, en_snap, en_out>>
    /\ RowFrame

\* write_to_csv: cumulative_stake = existing.get(key, 0) + stake, the row
\* is appended; record_successful_log: existing[key] += stake
LedgerAppend(l) ==
    /\ en_pc = "ledger"
    /\ en_prior[l].loaded
    /\ Len(en_snap) < MaxLedger
    /\ \E side \in LedgerSides, stake \in LedgerStakes :
          LET prev == en_prior[l].existing[side] IN
          /\ en_snap' = Append(en_snap,
                            [side |-> side, stake |-> stake,
                             cumulative_stake |-> prev + stake, by |-> l])
          /\ en_prior' = [en_prior EXCEPT ![l].existing[side] = prev + stake]
    /\ UNCHANGED <<en_pc, en_row, en_out>>
    /\ RowFrame

\* the process ends; its next run loads the ledger again
LedgerExit(l) ==
    /\ en_pc = "ledger"
    /\ en_prior[l].loaded
    /\ en_prior' = [en_prior EXCEPT ![l] =
                      [loaded |-> FALSE,
                       existing |-> load_existing_stakes(<<>>)]]
    /\ UNCHANGED <<en_pc, en_row, en_snap, en_out>>
    /\ RowFrame

NextLedger ==
    \/ \E l \in Loggers : LedgerLoad(l)
    \/ \E l \in Loggers : LedgerAppend(l)
    \/ \E l \in Loggers : LedgerExit(l)

SpecLedger == InitLedger /\ [][NextLedger]_vars

\* C40: the cumulative_stake of every ledger row is the sum of the stakes
\* of the ledger rows of the same (game_id, market, side) up to and
\* including that row, also when processes append concurrently.
C40_CumulativeIsRunningSum ==
    en_pc = "ledger" =>
        \A i \in 1..Len(en_snap) :
            en_snap[i].cumulative_stake
                = StakeSum(SubSeq(en_snap, 1, i), en_snap[i].side)

\* C40 (case reached): two processes that loaded the empty ledger have each
\* appended an entry for the same side; the second row's cumulative_stake
\* is its own stake
C40_SecondRowCountsOnlyItself ==
    /\ en_pc = "ledger"
    /\ Len(en_snap) = 2
    /\ en_snap[1].side = en_snap[2].side
    /\ en_snap[1].by # en_snap[2].by
    /\ en_snap[2].cumulative_stake = en_snap[2].stake

====
